---- MODULE Spec2Model ----
(***************************************************************************)
(* Game-session orchestration of the party-game platform: the single-row   *)
(* GameState record, the GameManager with its one active-game slot, the    *)
(* game modules built on BaseGame, and the socket handlers of app.py that  *)
(* drive them.  Every Python function is an operator from a world record   *)
(* (database rows, manager slot, module instances, events emitted so far)  *)
(* to the world record after the call; every socket handler is one action. *)
(***************************************************************************)
EXTENDS Integers, Sequences, FiniteSets, TLC

VARIABLES
    game_state,             \* the GameState row: is_active, active_game, game_data
    users,                  \* the users table, one row per participant
    active_game,            \* GameManager.active_game: NULL or the class of the instance held
    instances,              \* class -> the instance its socket handlers are bound to
    current_question_data,  \* app.py global: the question on the board, or NULL
    current_item_index,     \* app.py global
    total_items,            \* app.py global
    answers,                \* the AnswerUser table, in insertion order
    emitted,                \* the events the last handler emitted, in order
    steps,                  \* what the last handler did to the shared state, in order
    epoch,                  \* overall points the game modules awarded since game_data was last reset
    last_connect,           \* per participant: their connects since durable state last changed, and the last replay
    last_broadcast,         \* what the last question_selected or item_changed broadcast carried, while a question is held
    submitting,             \* per participant: the locals of their submit_guess or player_buzz that has read game_data and not yet written
    current_buzzed_player,  \* app.py global: who buzzed on the board question, or NULL
    silhouette_phase        \* app.py global: 'idle', 'growing', 'revealing_color' or 'complete'

vars == <<game_state, users, active_game, instances, current_question_data,
          current_item_index, total_items, answers, emitted, steps, epoch, last_connect,
          last_broadcast, submitting, current_buzzed_player, silhouette_phase>>

----------------------------------------------------------------------------
(* Bounds *)

MaxOverall == 2       \* no handler that may award a point runs once a participant holds this many
MaxFlappy == 2        \* flappy scores a client submits are 1..MaxFlappy
MaxItems == 2         \* a question has at most this many item_order groups
MaxBuzzer == 1        \* the operator marks no more answers once a buzzer score is this far from 0
MaxRound == 2         \* the round a client sends with an answer is 1..MaxRound
MaxOrder == 3         \* an order with a name the question does not have holds 1..MaxOrder names
MaxTotal == 200       \* no geo round is ended once a cumulative distance reached this many metres
MaxWrong == 1         \* a participant gives at most this many wrong Match Me answers in a game

----------------------------------------------------------------------------
(* Values *)

NULL == "None"
ADMIN == "admin"
Players == {"p1", "p2"}
Sessions == Players \cup {ADMIN}
UserOrder == <<"p1", "p2">>

EmptyDict == <<>>

Get(d, k, default) == IF k \in DOMAIN d THEN d[k] ELSE default

\* dict.update(partial): the keys of partial replace or are added, the others stay
DictUpdate(d, partial) == partial @@ d

\* A Python dict whose iteration order matters below (max, sorted): a sequence
\* of <<key, value>> in insertion order.
OdHas(d, k) == \E i \in 1..Len(d) : d[i][1] = k
OdIdx(d, k) == CHOOSE i \in 1..Len(d) : d[i][1] = k
OdGet(d, k, default) == IF OdHas(d, k) THEN d[OdIdx(d, k)][2] ELSE default
OdSet(d, k, v) == IF OdHas(d, k) THEN [d EXCEPT ![OdIdx(d, k)] = <<k, v>>] ELSE Append(d, <<k, v>>)
OdKeys(d) == {d[i][1] : i \in 1..Len(d)}

\* max(d.items(), key=lambda x: x[1]): the first item holding the largest value
PyMaxItem(d) ==
    d[CHOOSE i \in 1..Len(d) :
        /\ \A j \in 1..Len(d) : d[j][2] <= d[i][2]
        /\ \A j \in 1..(i - 1) : d[j][2] < d[i][2]]

----------------------------------------------------------------------------
(* GameManager.games: game id -> class *)

games == [flappy_birds  |-> "FlappyBirdsGame",
          price_guesser |-> "PriceGuessrGame",
          buzzer        |-> "BuzzerGame",
          coop_puzzle   |-> "CoopPuzzleGame",
          movie_guesser |-> "MovieGuessrGame",
          ordering_game |-> "OrderingGame",
          tt            |-> "SortingGame"]

Classes == {games[g] : g \in DOMAIN games} \cup {"GeoGuessrGame", "MatchMeGame"}

\* the game_name each class sets in __init__
game_name == [c \in Classes |->
    CASE c = "FlappyBirdsGame" -> "flappy_birds"
      [] c = "PriceGuessrGame" -> "price_guesser"
      [] c = "BuzzerGame"      -> "buzzer"
      [] c = "CoopPuzzleGame"  -> "coop_puzzle"
      [] c = "MovieGuessrGame" -> "movie_guesser"
      [] c = "OrderingGame"    -> "ordering_game"
      [] c = "SortingGame"     -> "sorting_game"
      [] c = "GeoGuessrGame"   -> "geo_guessr"
      [] c = "MatchMeGame"     -> "match_me"]

\* BaseGame.__init__ and the subclass __init__: a fresh instance; location is
\* GeoGuessrGame's location_data, the empty dict when None
NewInstance(location) ==
    [is_active |-> FALSE, current_round |-> 0, question_location |-> location,
     buzzer_active |-> FALSE, current_buzzed_player |-> NULL]

----------------------------------------------------------------------------
(* The world a handler runs in *)

World ==
    [gs |-> game_state, users |-> users, mgr |-> active_game, inst |-> instances,
     out |-> <<>>, log |-> <<>>, ep |-> epoch]

NoAwards == [p \in Players |-> 0]

\* socketio.emit / flask_socketio.emit
Emit(w, event, to, data) ==
    [w EXCEPT !.out = Append(@, [event |-> event, to |-> to, data |-> data])]

\* the trace of a handler: the step taken and what the State Store and the
\* manager held when it was taken
Log(w, step) ==
    [w EXCEPT !.log = Append(@, [step |-> step, game_data |-> w.gs.game_data,
                                 active_game |-> w.gs.active_game, manager |-> w.mgr])]

\* game_state.game_data = '{}'
ResetGameData(w) ==
    Log([w EXCEPT !.gs.game_data = EmptyDict, !.ep = NoAwards], "reset_game_data")

\* variant: update_game_state that stores the dict it is given
update_game_state_replaces(w, data) == [w EXCEPT !.gs.game_data = data]

\* BaseGame.update_game_state
update_game_state(w, data) == [w EXCEPT !.gs.game_data = DictUpdate(@, data)]

\* GameManager.update_game_data
GameManager_update_game_data(w, data) == [w EXCEPT !.gs.game_data = DictUpdate(@, data)]

\* BaseGame.get_game_state
get_game_state(w) == w.gs.game_data

\* BaseGame.award_overall_point, called from determine_winner
award_overall_point(w, username) ==
    IF username \in Players
    THEN [w EXCEPT !.users[username].overall_score = @ + 1, !.ep[username] = @ + 1]
    ELSE w

\* BaseGame.emit_to_all_players / emit_to_display
emit_to_all_players(w, event, data) == Emit(w, event, "broadcast", data)
emit_to_display(w, event, data) == Emit(w, event, "broadcast", data)
emit_to_admin(w, event, data) == Emit(w, event, ADMIN, data)
emit_to_player(w, username, event, data) == Emit(w, event, username, data)

\* BaseGame.initialize: is_active and the handlers bound to this instance
BaseInitialize(w, c) == [w EXCEPT !.inst[c].is_active = TRUE]

----------------------------------------------------------------------------
(* games/flappy_birds.py *)

FlappyInitialize(w) ==
    LET c  == "FlappyBirdsGame"
        w1 == BaseInitialize(w, c)
        w2 == [w1 EXCEPT !.users = [p \in Players |-> [w1.users[p] EXCEPT !.flappy_birds_score = 0]]]
        w3 == update_game_state(w2, [status |-> "ready", player_scores |-> <<>>])
        w4 == emit_to_all_players(w3, "flappy_birds_ready", EmptyDict)
    IN  emit_to_display(w4, "flappy_birds_init", [users |-> w4.users])

FlappyStartGame(w) ==
    LET c  == "FlappyBirdsGame"
        w1 == [w EXCEPT !.inst[c].is_active = TRUE]
        w2 == update_game_state(w1, [status |-> "active", player_scores |-> <<>>])
        w3 == emit_to_all_players(w2, "flappy_birds_started", EmptyDict)
    IN  emit_to_display(w3, "flappy_birds_started", EmptyDict)

FlappySubmitScore(w, username, score) ==
    LET player_scores == Get(get_game_state(w), "player_scores", <<>>)
    IN  IF ~OdHas(player_scores, username) \/ score > OdGet(player_scores, username, 0)
        THEN LET ps == OdSet(player_scores, username, score)
                 w1 == update_game_state(w, [player_scores |-> ps])
             IN  emit_to_display(w1, "flappy_birds_update_scores",
                                 [username |-> username, score |-> score, scores |-> ps])
        ELSE w

\* the loop "for username, score in player_scores.items(): user.flappy_birds_score = score"
FlappyStoreScores(us, player_scores) ==
    [p \in Players |->
        IF OdHas(player_scores, p)
        THEN [us[p] EXCEPT !.flappy_birds_score = OdGet(player_scores, p, 0)]
        ELSE us[p]]

FlappyDetermineWinner(w) ==
    LET w0 == Log(w, "determine_winner")
        player_scores == Get(get_game_state(w0), "player_scores", <<>>)
        winner_username == IF Len(player_scores) > 0 THEN PyMaxItem(player_scores)[1] ELSE NULL
        w1 == IF Len(player_scores) > 0
              THEN award_overall_point(
                       [w0 EXCEPT !.users = FlappyStoreScores(w0.users, player_scores)],
                       winner_username)
              ELSE w0
        game_over_data ==
              [winner |-> IF winner_username # NULL THEN winner_username ELSE "No one played",
               scores |-> player_scores]
        w2 == emit_to_all_players(w1, "flappy_birds_game_over", game_over_data)
    IN  emit_to_display(w2, "flappy_birds_game_over", game_over_data)

----------------------------------------------------------------------------
(* games/buzzer.py *)

BuzzerInitialize(w) ==
    LET c  == "BuzzerGame"
        w1 == BaseInitialize(w, c)
        w2 == [w1 EXCEPT !.users = [p \in Players |-> [w1.users[p] EXCEPT !.buzzer_score = 0]]]
        w3 == update_game_state(w2, [status |-> "ready", buzzer_active |-> FALSE,
                                     current_buzzed_player |-> NULL, player_scores |-> <<>>])
        w4 == emit_to_all_players(w3, "buzzer_ready", EmptyDict)
    IN  emit_to_display(w4, "buzzer_init", [users |-> w4.users])

BuzzerDetermineWinner(w) ==
    LET w0 == Log(w, "determine_winner")
        player_scores == Get(get_game_state(w0), "player_scores", <<>>)
    IN  IF Len(player_scores) = 0 THEN w0
        ELSE LET winner == PyMaxItem(player_scores)
                 w1 == award_overall_point(w0, winner[1])
                 data == [winner |-> winner[1], scores |-> player_scores]
                 w2 == emit_to_all_players(w1, "buzzer_game_over", data)
             IN  emit_to_display(w2, "buzzer_game_over", data)

\* BuzzerGame.start_buzzer
BuzzerStart(w) ==
    LET c  == "BuzzerGame"
        w1 == [w EXCEPT !.inst[c].is_active = TRUE, !.inst[c].buzzer_active = TRUE,
                        !.inst[c].current_buzzed_player = NULL]
        w2 == update_game_state(w1, [status |-> "active", buzzer_active |-> TRUE,
                                     current_buzzed_player |-> NULL])
        w3 == emit_to_all_players(w2, "buzzer_started", EmptyDict)
    IN  emit_to_display(w3, "buzzer_started", EmptyDict)

\* BuzzerGame.reset_buzzer
BuzzerReset(w) ==
    LET c  == "BuzzerGame"
        w1 == [w EXCEPT !.inst[c].buzzer_active = TRUE, !.inst[c].current_buzzed_player = NULL]
        w2 == update_game_state(w1, [buzzer_active |-> TRUE, current_buzzed_player |-> NULL])
        w3 == emit_to_all_players(w2, "buzzer_reset", EmptyDict)
    IN  emit_to_display(w3, "buzzer_reset", EmptyDict)

\* BuzzerGame.player_buzz
BuzzerPlayerBuzz(w, username) ==
    LET c  == "BuzzerGame"
        game_state_ == get_game_state(w)
    IN  IF ~Get(game_state_, "buzzer_active", FALSE)
           \/ Get(game_state_, "current_buzzed_player", NULL) # NULL
        THEN w
        ELSE LET w1 == [w EXCEPT !.inst[c].buzzer_active = FALSE,
                                 !.inst[c].current_buzzed_player = username]
                 w2 == update_game_state(w1, [buzzer_active |-> FALSE,
                                              current_buzzed_player |-> username])
                 w3 == emit_to_all_players(w2, "buzzer_buzzed", [username |-> username])
                 w4 == emit_to_display(w3, "buzzer_buzzed", [username |-> username])
             IN  emit_to_admin(w4, "buzzer_player_buzzed", [username |-> username])

\* BuzzerGame.mark_answer_correct
BuzzerMarkCorrect(w) ==
    LET game_state_ == get_game_state(w)
        username == Get(game_state_, "current_buzzed_player", NULL)
    IN  IF username = NULL THEN w
        ELSE LET w1 == IF username \in Players
                       THEN [w EXCEPT !.users[username].buzzer_score = @ + 1] ELSE w
                 old == Get(game_state_, "player_scores", <<>>)
                 player_scores == OdSet(old, username, OdGet(old, username, 0) + 1)
                 w2 == update_game_state(w1, [player_scores |-> player_scores])
                 data == [username |-> username, scores |-> player_scores]
                 w3 == emit_to_all_players(w2, "buzzer_answer_correct", data)
             IN  emit_to_display(w3, "buzzer_answer_correct", data)

\* BuzzerGame.mark_answer_wrong
BuzzerMarkWrong(w) ==
    LET game_state_ == get_game_state(w)
        username == Get(game_state_, "current_buzzed_player", NULL)
    IN  IF username = NULL THEN w
        ELSE LET w1 == IF username \in Players
                       THEN [w EXCEPT !.users[username].buzzer_score = @ - 1] ELSE w
                 old == Get(game_state_, "player_scores", <<>>)
                 lowered == OdGet(old, username, 0) - 1
                 player_scores == OdSet(old, username, IF lowered > 0 THEN lowered ELSE 0)
                 w2 == update_game_state(w1, [player_scores |-> player_scores])
                 data == [username |-> username, scores |-> player_scores]
                 w3 == emit_to_all_players(w2, "buzzer_answer_wrong", data)
             IN  emit_to_display(w3, "buzzer_answer_wrong", data)

----------------------------------------------------------------------------
(* The modules whose initialize only seeds game_data *)

\* PriceGuessrGame.initialize
PriceGuessrInitialize(w) == BaseInitialize(w, "PriceGuessrGame")

\* PriceGuessrGame.start_game
PriceGuessrStartGame(w) ==
    LET w1 == [w EXCEPT !.inst["PriceGuessrGame"].is_active = TRUE]
        w2 == update_game_state(w1, [status |-> "active"])
        w3 == emit_to_all_players(w2, "price_guesser_started", EmptyDict)
    IN  emit_to_display(w3, "price_guesser_started", EmptyDict)

\* SortingGame.initialize
SortingInitialize(w) ==
    LET w1 == BaseInitialize(w, "SortingGame")
        w2 == update_game_state(w1, [status |-> "ready", player_states |-> EmptyDict,
                                     game_ended |-> FALSE, winner |-> NULL])
    IN  emit_to_all_players(w2, "sorting_game_ready", EmptyDict)

\* OrderingGame.initialize
OrderingInitialize(w) ==
    LET w1 == BaseInitialize(w, "OrderingGame")
    IN  update_game_state(w1, [status |-> "ready", current_question |-> NULL,
                               player_submissions |-> EmptyDict, correct_order |-> <<>>])

\* MovieGuessrGame.initialize
MovieGuessrInitialize(w) ==
    LET w1 == BaseInitialize(w, "MovieGuessrGame")
    IN  update_game_state(w1, [status |-> "ready", current_screenshot |-> NULL,
                               player_guesses |-> EmptyDict])

----------------------------------------------------------------------------
(* games/geo_guessr.py.  Distances are in metres; coordinates are in        *)
(* thousandths of a degree on the equator, where the haversine formula      *)
(* gives 6371 km * |dlon| in radians = 111.1949 m per thousandth.           *)
(* A location that is None is the empty dict: the code reads only whether   *)
(* it is falsy.                                                             *)

total_rounds == 1
PERFECT_GUESS_THRESHOLD == 250
penalty_distance == 20000000

NoLocation == <<>>
QuestionLocation == [latitude |-> 0, longitude |-> 0, location_name |-> "loc"]
GuessLongitudes == {1, 3}

Abs(x) == IF x < 0 THEN -x ELSE x

\* GeoGuessrGame.calculate_distance
\* GeoGuessrGame.calculate_distance, for two points of latitude 0
calculate_distance(lat1, lon1, lat2, lon2) == (1111949 * Abs(lon2 - lon1)) \div 10000

GeoInitialize(w) ==
    LET c  == "GeoGuessrGame"
        w1 == BaseInitialize(w, c)
        w2 == [w1 EXCEPT !.users = [p \in Players |-> [w1.users[p] EXCEPT !.geo_guessr_score = 0]]]
        w3 == update_game_state(w2,
                  [status |-> "ready", current_round |-> 0, total_rounds |-> total_rounds,
                   current_location |-> NoLocation, played_locations |-> <<>>,
                   player_guesses |-> <<>>, round_results |-> EmptyDict,
                   player_total_distances |-> <<>>])
        w4 == emit_to_all_players(w3, "geo_guessr_ready", [total_rounds |-> total_rounds])
    IN  emit_to_display(w4, "geo_guessr_init", [users |-> w4.users, total_rounds |-> total_rounds])

\* GeoGuessrGame.determine_winner without the winner_determined guard
GeoDetermineWinner_unguarded(w) ==
    LET w0 == Log(w, "determine_winner")
        winners == SelectSeq(UserOrder, LAMBDA u : w0.users[u].geo_guessr_score > 0)
        w1 == [w0 EXCEPT
                 !.users = [p \in Players |->
                     IF w0.users[p].geo_guessr_score > 0
                     THEN [w0.users[p] EXCEPT !.overall_score = @ + 1]
                     ELSE w0.users[p]],
                 !.ep = [p \in Players |->
                     IF w0.users[p].geo_guessr_score > 0 THEN w0.ep[p] + 1 ELSE w0.ep[p]]]
        w2 == update_game_state(w1, [winner_determined |-> TRUE])
        data == [winner |-> winners,
                 scores |-> [p \in Players |-> w2.users[p].geo_guessr_score]]
        w3 == emit_to_all_players(w2, "geo_guessr_game_over", data)
    IN  emit_to_display(w3, "geo_guessr_game_over", data)

\* GeoGuessrGame.determine_winner
GeoDetermineWinner(w) ==
    LET w0 == Log(w, "determine_winner")
        game_state_ == get_game_state(w0)
    IN  IF Get(game_state_, "winner_determined", FALSE) THEN w0
        ELSE LET winners == SelectSeq(UserOrder, LAMBDA u : w0.users[u].geo_guessr_score > 0)
                 w1 == [w0 EXCEPT
                          !.users = [p \in Players |->
                              IF w0.users[p].geo_guessr_score > 0
                              THEN [w0.users[p] EXCEPT !.overall_score = @ + 1]
                              ELSE w0.users[p]],
                          !.ep = [p \in Players |->
                              IF w0.users[p].geo_guessr_score > 0 THEN w0.ep[p] + 1 ELSE w0.ep[p]]]
                 w2 == update_game_state(w1, [winner_determined |-> TRUE])
                 data == [winner |-> winners,
                          scores |-> [p \in Players |-> w2.users[p].geo_guessr_score]]
                 w3 == emit_to_all_players(w2, "geo_guessr_game_over", data)
             IN  emit_to_display(w3, "geo_guessr_game_over", data)

\* GeoGuessrGame.end_game, with BaseGame.end_game in it
GeoEndGame(w) ==
    LET c  == "GeoGuessrGame"
        w1 == update_game_state(w, [status |-> "game_ended"])
        w2 == [w1 EXCEPT !.inst[c].is_active = FALSE]
    IN  GeoDetermineWinner(w2)

\* GeoGuessrGame.start_round
GeoStartRound(w) ==
    LET c  == "GeoGuessrGame"
        round == Get(get_game_state(w), "current_round", 0) + 1
        w1 == [w EXCEPT !.inst[c].current_round = round]
        location == w1.inst[c].question_location
    IN  IF round > total_rounds THEN GeoEndGame(w1)
        ELSE IF location = NoLocation THEN w1
        ELSE LET w2 == update_game_state(w1,
                           [status |-> "active", current_round |-> round,
                            current_location |-> location, player_guesses |-> <<>>])
                 w3 == emit_to_all_players(w2, "geo_guessr_round_started",
                           [round |-> round, total_rounds |-> total_rounds])
             IN  emit_to_display(w3, "geo_guessr_show_location",
                           [location_name |-> location.location_name, round |-> round,
                            total_rounds |-> total_rounds])

\* GeoGuessrGame.start_game
GeoStartGame(w) == GeoStartRound([w EXCEPT !.inst["GeoGuessrGame"].is_active = TRUE])

\* GeoGuessrGame.submit_guess
GeoSubmitGuess(w, username, latitude, longitude) ==
    LET game_state_ == get_game_state(w)
    IN  IF Get(game_state_, "status", NULL) # "active" THEN w
        ELSE LET guess == [latitude |-> latitude, longitude |-> longitude]
                 player_guesses == OdSet(Get(game_state_, "player_guesses", <<>>), username, guess)
                 w1 == update_game_state(w, [player_guesses |-> player_guesses])
             IN  emit_to_player(w1, username, "geo_guessr_guess_submitted", guess)

\* the winners computed in end_round and again in calculate_scores
GeoWinners(player_total_distances) ==
    LET within == SelectSeq(player_total_distances, LAMBDA e : e[2] <= PERFECT_GUESS_THRESHOLD)
        \* sorted(items, key=distance)[0]: the first entry holding the least distance
        closest == CHOOSE i \in 1..Len(player_total_distances) :
                      /\ \A j \in 1..Len(player_total_distances) :
                            player_total_distances[i][2] <= player_total_distances[j][2]
                      /\ \A j \in 1..(i - 1) :
                            player_total_distances[j][2] > player_total_distances[i][2]
    IN  IF Len(within) > 0 THEN {within[i][1] : i \in 1..Len(within)}
        ELSE IF Len(player_total_distances) > 0 THEN {player_total_distances[closest][1]}
        ELSE {}

\* GeoGuessrGame.calculate_scores
GeoCalculateScores(w) ==
    LET player_total_distances == Get(get_game_state(w), "player_total_distances", <<>>)
        winners == GeoWinners(player_total_distances)
    IN  IF Len(player_total_distances) = 0 THEN w
        ELSE [w EXCEPT !.users = [p \in Players |->
                 IF OdHas(player_total_distances, p)
                 THEN [w.users[p] EXCEPT !.geo_guessr_score = IF p \in winners THEN 1 ELSE 0]
                 ELSE w.users[p]]]

\* end_round's first loop: the distance of every recorded guess, added to the totals
RECURSIVE GeoScoreGuesses(_, _, _, _)
GeoScoreGuesses(player_guesses, i, location, acc) ==
    IF i > Len(player_guesses) THEN acc
    ELSE LET username == player_guesses[i][1]
             guess == player_guesses[i][2]
             distance == calculate_distance(location.latitude, location.longitude,
                                            guess.latitude, guess.longitude)
             total == OdGet(acc.totals, username, 0) + distance
         IN  GeoScoreGuesses(player_guesses, i + 1, location,
                 [totals |-> OdSet(acc.totals, username, total),
                  results |-> OdSet(acc.results, username,
                      [guess |-> guess, distance |-> distance, total_distance |-> total])])

\* variant: the penalty for every participant, with or without a guess
RECURSIVE GeoPenalize_everyone(_, _, _)
GeoPenalize_everyone(player_guesses, i, acc) ==
    IF i > Len(UserOrder) THEN acc
    ELSE LET username == UserOrder[i]
             total == OdGet(acc.totals, username, 0) + penalty_distance
         IN  GeoPenalize_everyone(player_guesses, i + 1,
                 [totals |-> OdSet(acc.totals, username, total),
                  results |-> OdSet(acc.results, username,
                      [guess |-> [latitude |-> 0, longitude |-> 0],
                       distance |-> penalty_distance, total_distance |-> total])])

\* end_round's second loop: the penalty for every participant without a guess
RECURSIVE GeoPenalize(_, _, _)
GeoPenalize(player_guesses, i, acc) ==
    IF i > Len(UserOrder) THEN acc
    ELSE LET username == UserOrder[i]
             total == OdGet(acc.totals, username, 0) + penalty_distance
         IN  IF OdHas(player_guesses, username) THEN GeoPenalize(player_guesses, i + 1, acc)
             ELSE GeoPenalize(player_guesses, i + 1,
                     [totals |-> OdSet(acc.totals, username, total),
                      results |-> OdSet(acc.results, username,
                          [guess |-> [latitude |-> 0, longitude |-> 0],
                           distance |-> penalty_distance, total_distance |-> total])])

\* list.sort(key=distance): stable, ascending
RECURSIVE SortByDistance(_)
SortByDistance(s) ==
    IF Len(s) <= 1 THEN s
    ELSE LET rest == SortByDistance(Tail(s))
             before == SelectSeq(rest, LAMBDA e : e.distance < Head(s).distance)
             after == SelectSeq(rest, LAMBDA e : e.distance >= Head(s).distance)
         IN  before \o <<Head(s)>> \o after

\* str(self.current_round), the key json gives the round in round_results
RoundKey(n) == CASE n = 0 -> "0" [] n = 1 -> "1" [] OTHER -> "2"

\* GeoGuessrGame.end_round
GeoEndRound(w) ==
    LET c  == "GeoGuessrGame"
        game_state_ == get_game_state(w)
        current_location == Get(game_state_, "current_location", NoLocation)
        player_guesses == Get(game_state_, "player_guesses", <<>>)
        scored == GeoScoreGuesses(player_guesses, 1, current_location,
                      [totals |-> Get(game_state_, "player_total_distances", <<>>),
                       results |-> <<>>])
        all == GeoPenalize(player_guesses, 1, scored)
        round == w.inst[c].current_round
        round_results == (RoundKey(round) :> [location |-> current_location, results |-> all.results])
                            @@ Get(game_state_, "round_results", EmptyDict)
        w1 == update_game_state(w, [status |-> "round_ended", round_results |-> round_results,
                                    player_total_distances |-> all.totals])
        winners == GeoWinners(all.totals)
        players == [i \in 1..Len(all.results) |->
                       [username |-> all.results[i][1],
                        latitude |-> all.results[i][2].guess.latitude,
                        longitude |-> all.results[i][2].guess.longitude,
                        distance |-> all.results[i][2].distance,
                        total_distance |-> all.results[i][2].total_distance,
                        points |-> IF all.results[i][1] \in winners THEN 1 ELSE 0]]
        display_data == [round |-> round, location |-> current_location,
                         players |-> SortByDistance(players)]
        w2 == emit_to_all_players(w1, "geo_guessr_round_ended", display_data)
        w3 == emit_to_display(w2, "geo_guessr_show_results", display_data)
    IN  IF current_location = NoLocation THEN w
        ELSE IF round >= total_rounds THEN GeoCalculateScores(w3)
        ELSE w3

----------------------------------------------------------------------------
(* games/match_me.py.  Which title and which artists a question shows is    *)
(* drawn at random and only decides what the participant sees: a question   *)
(* is the position of its correct artist, and whether a next question can   *)
(* be built (generate_next_question) is an input of the handler.            *)

questions_per_player == 12

MatchMeQuestion == [title_id |-> 1, correct_artist_id |-> 0]

\* what get_player_state gives for a participant without a state
MatchMeNoState ==
    [current_question |-> 0, correct_answers |-> 0, completed |-> FALSE,
     current_question_data |-> <<>>, points |-> 0]

\* MatchMeGame.update_player_state
MatchMeUpdatePlayerState(w, username, state) ==
    LET player_states == Get(get_game_state(w), "player_states", <<>>)
    IN  update_game_state(w, [player_states |-> OdSet(player_states, username, state)])

\* MatchMeGame.get_player_state
MatchMeGetPlayerState(w, username) ==
    OdGet(Get(get_game_state(w), "player_states", <<>>), username, MatchMeNoState)

\* MatchMeGame.all_players_completed
all_players_completed(w) ==
    LET player_states == Get(get_game_state(w), "player_states", <<>>)
    IN  \A i \in DOMAIN player_states :
           player_states[i][2].completed \/ player_states[i][1] = ADMIN

\* initialize: a fresh state for every participant, in the order of the users
RECURSIVE MatchMeSeedPlayers(_, _)
MatchMeSeedPlayers(w, i) ==
    IF i > Len(UserOrder) THEN w
    ELSE MatchMeSeedPlayers(MatchMeUpdatePlayerState(w, UserOrder[i], MatchMeNoState), i + 1)

\* MatchMeGame.initialize
MatchMeInitialize(w) ==
    LET w1 == BaseInitialize(w, "MatchMeGame")
        w2 == [w1 EXCEPT !.users = [p \in Players |-> [w1.users[p] EXCEPT !.match_me_score = 0]]]
        w3 == update_game_state(w2, [status |-> "ready", used_titles |-> <<>>,
                                     used_artists |-> <<>>, used_answers |-> <<>>,
                                     used_questions |-> <<>>, player_states |-> <<>>])
        w4 == MatchMeSeedPlayers(w3, 1)
        w5 == emit_to_all_players(w4, "match_me_ready", EmptyDict)
    IN  emit_to_display(w5, "match_me_init", [users |-> w5.users])

\* start_game: generate_question and match_me_question, for every participant
RECURSIVE MatchMeFirstQuestions(_, _)
MatchMeFirstQuestions(w, i) ==
    IF i > Len(UserOrder) THEN w
    ELSE LET username == UserOrder[i]
             player_state == [MatchMeGetPlayerState(w, username)
                                EXCEPT !.current_question_data = MatchMeQuestion]
             w1 == MatchMeUpdatePlayerState(w, username, player_state)
         IN  MatchMeFirstQuestions(
                 emit_to_player(w1, username, "match_me_question", MatchMeQuestion), i + 1)

\* MatchMeGame.start_game
MatchMeStartGame(w) ==
    LET w1 == [w EXCEPT !.inst["MatchMeGame"].is_active = TRUE]
        w2 == update_game_state(w1, [status |-> "active"])
        w3 == emit_to_all_players(w2, "match_me_countdown", [countdown |-> 3])
        w4 == emit_to_display(w3, "match_me_countdown", [countdown |-> 3])
    IN  MatchMeFirstQuestions(w4, 1)

\* the points of a participant in the game_data determine_winner read
MatchMePoints(game_state_, username) ==
    LET player_states == Get(game_state_, "player_states", <<>>)
    IN  IF OdHas(player_states, username)
        THEN OdGet(player_states, username, MatchMeNoState).points ELSE 0

\* MatchMeGame.determine_winner after its check of winner_determined, with
\* the game_data the check read; max(scores, key=scores.get) is the first
\* participant, in the order of the users, who holds the most points
MatchMeDetermineWinnerWrite(w, game_state_) ==
    LET scores == [i \in DOMAIN UserOrder |->
                      <<UserOrder[i], MatchMePoints(game_state_, UserOrder[i])>>]
        winner == PyMaxItem(scores)
        w1 == [w EXCEPT !.users[winner[1]].overall_score = @ + 1, !.ep[winner[1]] = @ + 1]
        w2 == update_game_state(w1, [winner_determined |-> TRUE])
        data == [winner |-> winner[1], scores |-> scores, winner_points |-> winner[2]]
        w3 == emit_to_all_players(w2, "match_me_game_over", data)
    IN  emit_to_display(w3, "match_me_game_over", data)

\* MatchMeGame.determine_winner; whole: the call runs to its end, otherwise
\* it stops after the check, with the game_data it read in the trace
MatchMeDetermineWinner(w, whole) ==
    LET w0 == Log(w, "determine_winner")
    IN  IF Get(get_game_state(w0), "winner_determined", FALSE) THEN w0
        ELSE IF whole THEN MatchMeDetermineWinnerWrite(w0, get_game_state(w0))
        ELSE Log(w0, "winner_not_determined")

\* MatchMeGame.end_game: the status, then BaseGame.end_game
MatchMeEndGame(w, whole) ==
    LET w1 == update_game_state(w, [status |-> "ended"])
    IN  MatchMeDetermineWinner([w1 EXCEPT !.inst["MatchMeGame"].is_active = FALSE], whole)

\* end_game_for_all_players: the loop over the player_states read at its start
RECURSIVE MatchMeCompleteAll(_, _, _)
MatchMeCompleteAll(w, player_states, i) ==
    IF i > Len(player_states) THEN w
    ELSE LET username == player_states[i][1]
             state == player_states[i][2]
             w1 == MatchMeUpdatePlayerState(w, username, [state EXCEPT !.completed = TRUE])
             w2 == emit_to_player(w1, username, "match_me_completed",
                       [correct_answers |-> state.correct_answers,
                        total_questions |-> questions_per_player,
                        points |-> state.points, game_ended_early |-> TRUE])
         IN  MatchMeCompleteAll(IF state.completed THEN w ELSE w2, player_states, i + 1)

\* MatchMeGame.end_game_for_all_players
end_game_for_all_players(w, whole) ==
    LET player_states == Get(get_game_state(w), "player_states", <<>>)
    IN  MatchMeEndGame(MatchMeCompleteAll(w, player_states, 1), whole)

\* int(selected_artist_id), for the artist ids a client sends
ArtistIds == [a0 |-> 0, a1 |-> 1]

\* MatchMeGame.process_answer; next_found: generate_next_question returns a
\* question
MatchMeProcessAnswer(w, username, selected_artist_id, next_found, whole) ==
    LET old == MatchMeGetPlayerState(w, username)
        question == old.current_question_data
    IN  IF question = <<>> \/ selected_artist_id \notin DOMAIN ArtistIds THEN w
        ELSE LET correct_id == question.correct_artist_id
                 is_correct == ArtistIds[selected_artist_id] = correct_id
                 points_deduction == IF old.points < 5 THEN old.points ELSE 5
                 points_change == IF is_correct THEN 10 ELSE -points_deduction
                 player_state == [old EXCEPT
                     !.current_question = @ + 1,
                     !.correct_answers = IF is_correct THEN @ + 1 ELSE @,
                     !.points = @ + points_change]
                 completed == [player_state EXCEPT !.completed = TRUE]
                 w1 == [w EXCEPT !.users[username].match_me_score = @ + points_change]
                 result == [is_correct |-> is_correct, correct_artist_id |-> correct_id,
                            points_change |-> points_change,
                            progress |-> [current |-> player_state.current_question,
                                          total |-> questions_per_player,
                                          correct |-> player_state.correct_answers,
                                          points |-> player_state.points]]
                 completion_data == [correct_answers |-> player_state.correct_answers,
                                     total_questions |-> questions_per_player,
                                     points |-> player_state.points]
             IN  IF player_state.current_question >= questions_per_player
                 THEN LET w2 == MatchMeUpdatePlayerState(w1, username, completed)
                          w3 == emit_to_player(w2, username, "match_me_answer_result", result)
                          w4 == emit_to_player(w3, username, "match_me_completed",
                                               completion_data)
                      IN  end_game_for_all_players(w4, whole)
                 ELSE IF next_found
                 THEN LET w2 == MatchMeUpdatePlayerState(w1, username, player_state)
                          w3 == emit_to_player(w2, username, "match_me_question",
                                               MatchMeQuestion)
                      IN  emit_to_player(w3, username, "match_me_answer_result", result)
                 ELSE LET w2 == MatchMeUpdatePlayerState(w1, username, completed)
                          w3 == emit_to_player(w2, username, "match_me_completed",
                                    completion_data @@ [game_ended_early |-> TRUE])
                      IN  IF all_players_completed(w3) THEN MatchMeEndGame(w3, whole)
                          ELSE w3

----------------------------------------------------------------------------
(* games/coop_puzzle.py.  The instance keeps teams and player_states in     *)
(* memory and copies them into game_data.  A dict of teams is a sequence of *)
(* <<team_id, members>>; a participant's pieces are a function from the     *)
(* piece ids they have moved.                                               *)

rows == 5
cols == 5

PuzzleImage == "/static/images/puzzle/q13.png"

\* the orders random.shuffle can leave the participants in
Shuffles == {o \in [1..Len(UserOrder) -> Players] : \A i, j \in DOMAIN o : o[i] = o[j] => i = j}

TeamIds == <<"team_1", "team_2", "team_3">>

\* CoopPuzzleGame.assign_teams with fewer than four participants: each is
\* a team of their own, in the shuffled order
assign_teams(w, usernames) ==
    [w EXCEPT !.inst["CoopPuzzleGame"] =
        [teams |-> [i \in DOMAIN usernames |-> <<TeamIds[i], <<usernames[i]>>>>],
         player_states |-> [p \in Players |-> <<>>],
         current_image |-> NULL] @@ @]

\* CoopPuzzleGame.initialize, after __init__ with the question's media_url;
\* puzzle_score, which it sets to 0, is read nowhere
CoopInitialize(w, shuffled) ==
    LET c  == "CoopPuzzleGame"
        w1 == assign_teams(BaseInitialize(w, c), shuffled)
        w2 == [w1 EXCEPT !.inst[c].current_image = PuzzleImage]
        me == w2.inst[c]
        w3 == update_game_state(w2, [status |-> "ready", teams |-> me.teams,
                                     player_states |-> me.player_states, game_over |-> FALSE,
                                     winning_team |-> NULL, image_path |-> me.current_image])
        w4 == emit_to_all_players(w3, "coop_puzzle_ready",
                  [teams |-> me.teams, total_pieces |-> rows * cols,
                   image_path |-> me.current_image])
    IN  emit_to_display(w4, "coop_puzzle_init",
            [teams |-> me.teams, users |-> w4.users, image_path |-> me.current_image])

\* CoopPuzzleGame.start_game
CoopStartGame(w) ==
    LET c  == "CoopPuzzleGame"
        w1 == update_game_state([w EXCEPT !.inst[c].is_active = TRUE],
                                [status |-> "active", game_over |-> FALSE])
        w2 == emit_to_all_players(w1, "coop_puzzle_started", EmptyDict)
    IN  emit_to_display(w2, "coop_puzzle_started", EmptyDict)

\* CoopPuzzleGame.update_piece_position
update_piece_position(w, username, piece_id, is_locked) ==
    LET c  == "CoopPuzzleGame"
        piece == [x |-> 0, y |-> 0, isLocked |-> is_locked]
        w1 == [w EXCEPT !.inst[c].player_states[username] = (piece_id :> piece) @@ @]
    IN  IF is_locked
        THEN update_game_state(w1, [player_states |-> w1.inst[c].player_states]
                                       @@ get_game_state(w1))
        ELSE w1

\* the pieces some member of the team has locked
correctly_placed(me, team_members) ==
    UNION {{piece_id \in DOMAIN me.player_states[team_members[k]] :
               me.player_states[team_members[k]][piece_id].isLocked} :
           k \in DOMAIN team_members}

\* CoopPuzzleGame.broadcast_team_progress; percentage is 100 * locked / 25
broadcast_team_progress(w) ==
    LET me == w.inst["CoopPuzzleGame"]
        pieces_locked(i) == Cardinality(correctly_placed(me, me.teams[i][2]))
    IN  emit_to_display(w, "coop_puzzle_progress",
            [team_progress |-> [i \in DOMAIN me.teams |->
                <<me.teams[i][1],
                  [pieces_locked |-> pieces_locked(i), total_pieces |-> rows * cols,
                   percentage |-> (100 * pieces_locked(i)) \div (rows * cols)]>>]])

\* CoopPuzzleGame.check_team_completion: the first team, in the order of
\* the dict, whose members have locked every piece between them
check_team_completion(w) ==
    LET me == w.inst["CoopPuzzleGame"]
        done(i) == Cardinality(correctly_placed(me, me.teams[i][2])) = rows * cols
    IN  IF \E i \in DOMAIN me.teams : done(i)
        THEN me.teams[CHOOSE i \in DOMAIN me.teams :
                         done(i) /\ \A j \in 1..(i - 1) : ~done(j)][1]
        ELSE NULL

\* for username in team_members: user.overall_score += 1
RECURSIVE CoopAwardMembers(_, _)
CoopAwardMembers(w, team_members) ==
    IF team_members = <<>> THEN w
    ELSE CoopAwardMembers(
             IF Head(team_members) \in Players
             THEN [w EXCEPT !.users[Head(team_members)].overall_score = @ + 1,
                            !.ep[Head(team_members)] = @ + 1]
             ELSE w,
             Tail(team_members))

\* CoopPuzzleGame.handle_game_completion
handle_game_completion(w, winning_team) ==
    LET me == w.inst["CoopPuzzleGame"]
        team_members == OdGet(me.teams, winning_team, <<>>)
        w1 == CoopAwardMembers(Log(w, "handle_game_completion"), team_members)
        w2 == update_game_state(w1, [status |-> "completed", game_over |-> TRUE,
                                     winning_team |-> winning_team])
        told == [winning_team |-> winning_team, team_members |-> team_members]
        w3 == emit_to_all_players(w2, "coop_puzzle_completed", told)
        w4 == emit_to_display(w3, "coop_puzzle_completed", told)
    IN  emit_to_admin(w4, "coop_puzzle_game_over", [winning_team |-> winning_team])

----------------------------------------------------------------------------
(* The module behind a class *)

\* game_class.initialize()
Initialize(w, c) ==
    CASE c = "FlappyBirdsGame" -> FlappyInitialize(w)
      [] c = "BuzzerGame"      -> BuzzerInitialize(w)
      [] c = "GeoGuessrGame"   -> GeoInitialize(w)
      [] c = "PriceGuessrGame" -> PriceGuessrInitialize(w)
      [] c = "SortingGame"     -> SortingInitialize(w)
      [] c = "OrderingGame"    -> OrderingInitialize(w)
      [] c = "MovieGuessrGame" -> MovieGuessrInitialize(w)
      [] c = "MatchMeGame"     -> MatchMeInitialize(w)

\* game_class.determine_winner(); the modules that do not override it, or
\* override it with pass, award nothing
DetermineWinner(w, c) ==
    CASE c = "FlappyBirdsGame" -> FlappyDetermineWinner(w)
      [] c = "BuzzerGame"      -> BuzzerDetermineWinner(w)
      [] c = "GeoGuessrGame"   -> GeoDetermineWinner(w)
      [] c = "MatchMeGame"     -> MatchMeDetermineWinner(w, TRUE)
      [] OTHER                 -> Log(w, "determine_winner")

\* BaseGame.end_game
BaseEndGame(w, c) == DetermineWinner([w EXCEPT !.inst[c].is_active = FALSE], c)

\* game_class.end_game()
ModuleEndGame(w, c) ==
    IF c = "GeoGuessrGame" THEN GeoEndGame(w)
    ELSE IF c = "MatchMeGame" THEN MatchMeEndGame(w, TRUE)
    ELSE BaseEndGame(w, c)

\* CoopPuzzleGame.end_game; determine_winner is pass
CoopEndGame(w) ==
    BaseEndGame(update_game_state(w, [status |-> "ended"]), "CoopPuzzleGame")

----------------------------------------------------------------------------
(* games/game_manager.py *)

\* GameManager.start_game that leaves game_data as the last game left it
GameManager_start_game_keeps_data(w, name) ==
    IF name \notin DOMAIN games THEN [w |-> Log(w, "game_not_found"), ret |-> FALSE]
    ELSE LET c  == games[name]
             w1 == [w EXCEPT !.gs.is_active = TRUE, !.gs.active_game = name]
             w2 == [w1 EXCEPT !.inst = (c :> NewInstance(NoLocation)) @@ @, !.mgr = c]
         IN  [w |-> Initialize(Log(w2, "initialize"), c), ret |-> TRUE]

\* GameManager.start_game that writes the State Store before it looks the id up
GameManager_start_game_writes_first(w, name) ==
    LET w1 == ResetGameData([w EXCEPT !.gs.is_active = TRUE, !.gs.active_game = name])
    IN  IF name \notin DOMAIN games THEN [w |-> Log(w1, "game_not_found"), ret |-> FALSE]
        ELSE LET c  == games[name]
                 w2 == [w1 EXCEPT !.inst = (c :> NewInstance(NoLocation)) @@ @, !.mgr = c]
             IN  [w |-> Initialize(Log(w2, "initialize"), c), ret |-> TRUE]

\* GameManager.start_game: the world after the call and the value returned
GameManager_start_game(w, name) ==
    IF name \notin DOMAIN games THEN [w |-> Log(w, "game_not_found"), ret |-> FALSE]
    ELSE LET c  == games[name]
             w1 == ResetGameData([w EXCEPT !.gs.is_active = TRUE, !.gs.active_game = name])
             w2 == [w1 EXCEPT !.inst = (c :> NewInstance(NoLocation)) @@ @, !.mgr = c]
         IN  [w |-> Initialize(Log(w2, "initialize"), c), ret |-> TRUE]

\* GameManager.end_game that drops the instance and leaves active_game in
\* the State Store
GameManager_end_game_keeps_store(w) ==
    IF w.mgr = NULL THEN [w |-> Log(w, "no_active_game"), ret |-> FALSE]
    ELSE LET w1 == ModuleEndGame(Log(w, "end_game"), w.mgr)
             w2 == Log([w1 EXCEPT !.mgr = NULL], "drop_reference")
         IN  [w |-> w2, ret |-> TRUE]

\* GameManager.end_game that resets the State Store before the module ends
GameManager_end_game_resets_first(w) ==
    IF w.mgr = NULL THEN [w |-> Log(w, "no_active_game"), ret |-> FALSE]
    ELSE LET w1 == ResetGameData([Log(w, "end_game") EXCEPT !.gs.active_game = NULL])
             w2 == ModuleEndGame(w1, w.mgr)
             w3 == Log([w2 EXCEPT !.mgr = NULL], "drop_reference")
         IN  [w |-> w3, ret |-> TRUE]

\* GameManager.end_game
GameManager_end_game(w) ==
    IF w.mgr = NULL THEN [w |-> Log(w, "no_active_game"), ret |-> FALSE]
    ELSE LET w1 == ModuleEndGame(Log(w, "end_game"), w.mgr)
             w2 == ResetGameData([w1 EXCEPT !.gs.active_game = NULL])
             w3 == Log([w2 EXCEPT !.mgr = NULL], "drop_reference")
         IN  [w |-> w3, ret |-> TRUE]

\* GameManager.get_active_game
get_active_game(w) == w.mgr

----------------------------------------------------------------------------
(* The questions of the session board, as Question.to_dict() gives them.    *)
(* n_items is the number of distinct item_order values of the question's    *)
(* items, 0 for a question without items.                                   *)

Question(id, type, input_expected, movie_id, order_items, n_items) ==
    [id |-> id, question_type |-> type, question_text |-> type,
     input_expected |-> input_expected, movie_id |-> movie_id,
     order_items |-> order_items, n_items |-> n_items]

Questions ==
    { Question(1, "order", FALSE, FALSE, TRUE, 0),
      Question(2, "gg", FALSE, FALSE, FALSE, 0),
      Question(3, "pg", FALSE, FALSE, FALSE, 0),
      Question(4, "tt", FALSE, FALSE, FALSE, 0),
      Question(5, "mc", FALSE, FALSE, FALSE, 0),
      Question(6, "text", TRUE, TRUE, FALSE, 0),
      Question(7, "ac", TRUE, FALSE, FALSE, 0),
      Question(8, "text", TRUE, FALSE, FALSE, 0),
      Question(9, "image", FALSE, FALSE, FALSE, MaxItems),
      Question(10, "info", FALSE, FALSE, FALSE, 0),
      Question(11, "gg", FALSE, FALSE, FALSE, 0),
      Question(12, "mm", FALSE, FALSE, FALSE, 0),
      Question(14, "silhouette", FALSE, FALSE, FALSE, 0),
      Question(15, "order", FALSE, FALSE, TRUE, 0) }

\* the gg questions that have no GeoGuessrLocation row
Unlocated == {q \in Questions : q.id = 11}

NoQuestion == <<>>      \* current_question_data = None: only its falsiness is read

\* the durable state a reconnection must leave alone
Durable == <<game_state, users, answers, current_question_data, current_item_index, total_items>>

NotConnected == [connects |-> 0, replay |-> <<>>]

\* no submit_guess of the participant is between its two database accesses
NotSubmitting == <<>>

NoBroadcast == [questionData |-> NoQuestion, currentItemIndex |-> 0, totalItems |-> 0]

\* what the clients that stay connected were last told about the question:
\* the last question_selected or item_changed broadcast of the events out
RECURSIVE LastBroadcast(_, _)
LastBroadcast(out, before) ==
    IF out = <<>> THEN before
    ELSE LET e == out[Len(out)]
         IN  IF e.to = "broadcast" /\ e.event \in {"question_selected", "item_changed"}
             THEN [questionData |-> e.data.questionData,
                   currentItemIndex |-> e.data.currentItemIndex,
                   totalItems |-> e.data.totalItems]
             ELSE LastBroadcast(SubSeq(out, 1, Len(out) - 1), before)

\* every handler: the broadcasts it made are what the clients now hold, for
\* as long as the server holds a question
KeepBroadcast ==
    last_broadcast' = IF current_question_data' = NoQuestion THEN NoBroadcast
                      ELSE LastBroadcast(emitted', last_broadcast)

\* what every handler but connect does to the record of the last connects:
\* a connect followed by a change of durable state is forgotten
KeepClients ==
    /\ last_connect' = [p \in Players |->
            IF Durable' = Durable THEN last_connect[p] ELSE NotConnected]
    /\ KeepBroadcast
    /\ UNCHANGED submitting

\* the handlers that write neither current_buzzed_player nor silhouette_phase
KeepBuzzer == UNCHANGED <<current_buzzed_player, silhouette_phase>>

KeepConnects == KeepClients /\ KeepBuzzer

\* the world a handler leaves behind becomes the next state
Commit(w) ==
    /\ game_state' = w.gs
    /\ users' = w.users
    /\ active_game' = w.mgr
    /\ instances' = w.inst
    /\ emitted' = w.out
    /\ steps' = w.log
    /\ epoch' = w.ep

Board == <<current_question_data, current_item_index, total_items>>

\* the globals cleared by the handlers that leave a question or a game
ClearQuestion ==
    /\ current_question_data' = NoQuestion
    /\ current_item_index' = 0
    /\ total_items' = 0

\* no handler that may award a point runs once a participant holds MaxOverall
CanAward == \A p \in Players : users[p].overall_score < MaxOverall

Begin == Log(World, "begin")

\* trigger_display_refresh
trigger_display_refresh(w) == Emit(w, "display_refresh", "broadcast", EmptyDict)

----------------------------------------------------------------------------
(* app.py: the operator's handlers *)

\* handle_select_game
HandleSelectGame(sender, name) ==
    /\ LET r == GameManager_start_game(Begin, name)
       IN  IF sender # ADMIN THEN Commit(Begin)
           ELSE IF r.ret THEN Commit(Emit(r.w, "game_started", "broadcast", [game |-> name]))
           ELSE Commit(r.w)
    /\ UNCHANGED <<Board, answers>>
    /\ KeepConnects

\* handle_end_game
HandleEndGame(sender) ==
    /\ CanAward
    /\ IF sender # ADMIN
       THEN Commit(Begin) /\ UNCHANGED Board
       ELSE /\ ClearQuestion
            /\ LET r == GameManager_end_game(Begin)
                   w1 == Emit(r.w, "game_ended", "broadcast", EmptyDict)
                   w2 == trigger_display_refresh(w1)
                   w3 == Emit(w2, "admin_players_goto_waiting_room", "broadcast", EmptyDict)
               IN  IF r.ret THEN Commit(w3) ELSE Commit(r.w)
    /\ UNCHANGED answers
    /\ KeepConnects

\* handle_start_platform
HandleStartPlatform(sender) ==
    /\ CanAward
    /\ IF sender # ADMIN
       THEN Commit(Begin) /\ UNCHANGED Board
       ELSE /\ ClearQuestion
            /\ LET w1 == ResetGameData([Begin EXCEPT !.gs.is_active = TRUE, !.gs.active_game = NULL])
                   w2 == IF w1.mgr # NULL THEN GameManager_end_game(w1).w ELSE w1
                   w3 == trigger_display_refresh(w2)
               IN  Commit(Emit(w3, "game_ended", "broadcast", EmptyDict))
    /\ UNCHANGED answers
    /\ KeepConnects

\* handle_stop_platform
HandleStopPlatform(sender) ==
    /\ CanAward
    /\ IF sender # ADMIN
       THEN Commit(Begin) /\ UNCHANGED Board
       ELSE /\ ClearQuestion
            /\ LET w1 == [Begin EXCEPT !.gs.is_active = FALSE, !.gs.active_game = NULL]
                   w2 == IF get_active_game(w1) # NULL THEN GameManager_end_game(w1).w ELSE w1
                   w3 == trigger_display_refresh(w2)
               IN  Commit(Emit(w3, "admin_players_goto_waiting_room", "broadcast", EmptyDict))
    /\ UNCHANGED answers
    /\ KeepConnects

\* handle_back_to_game_board
HandleBackToGameBoard(sender) ==
    /\ CanAward
    /\ IF sender # ADMIN
       THEN Commit(Begin) /\ UNCHANGED Board
       ELSE /\ ClearQuestion
            /\ LET w1 == IF Begin.mgr # NULL THEN GameManager_end_game(Begin).w ELSE Begin
                   w2 == ResetGameData([w1 EXCEPT !.gs.active_game = NULL])
               IN  Commit(Emit(w2, "return_to_game_board", "broadcast", EmptyDict))
    /\ silhouette_phase' = IF sender = ADMIN THEN "idle" ELSE silhouette_phase
    /\ UNCHANGED <<answers, current_buzzed_player>>
    /\ KeepClients

\* handle_admin_goto_game_board
HandleAdminGotoGameBoard(sender) ==
    /\ CanAward
    /\ IF sender # ADMIN
       THEN Commit(Begin) /\ UNCHANGED Board
       ELSE /\ ClearQuestion
            /\ LET w1 == IF Begin.mgr # NULL THEN GameManager_end_game(Begin).w ELSE Begin
                   w2 == ResetGameData([w1 EXCEPT !.gs.is_active = TRUE, !.gs.active_game = NULL])
                   w3 == Emit(w2, "admin_display_goto_game_board", "broadcast", EmptyDict)
               IN  Commit(Emit(w3, "admin_players_goto_waiting_room", "broadcast", EmptyDict))
    /\ UNCHANGED answers
    /\ KeepConnects

\* handle_admin_goto_waiting_room
HandleAdminGotoWaitingRoom(sender) ==
    /\ CanAward
    /\ IF sender # ADMIN
       THEN Commit(Begin) /\ UNCHANGED Board
       ELSE /\ ClearQuestion
            /\ LET w1 == IF Begin.mgr # NULL THEN GameManager_end_game(Begin).w ELSE Begin
                   w2 == ResetGameData([w1 EXCEPT !.gs.is_active = FALSE, !.gs.active_game = NULL])
                   w3 == Emit(w2, "admin_display_goto_waiting_room", "broadcast", EmptyDict)
               IN  Commit(Emit(w3, "admin_players_goto_waiting_room", "broadcast", EmptyDict))
    /\ UNCHANGED answers
    /\ KeepConnects

\* handle_start_actual_game: active_game.start_game() of the classes that
\* have one; SortingGame.start_game needs a question id and raises without
HandleStartActualGame(sender) ==
    /\ LET c == get_active_game(Begin)
       IN  IF sender # ADMIN THEN Commit(Begin)
           ELSE CASE c = "FlappyBirdsGame" -> Commit(FlappyStartGame(Begin))
                  [] c = "GeoGuessrGame"   -> Commit(GeoStartGame(Begin))
                  [] c = "PriceGuessrGame" -> Commit(PriceGuessrStartGame(Begin))
                  [] OTHER                 -> Commit(Begin)
    /\ CanAward
    /\ UNCHANGED <<Board, answers>>
    /\ KeepConnects

----------------------------------------------------------------------------
(* The handlers a module binds in register_socket_events: an event reaches  *)
(* the instance of the class that bound its handlers last.                  *)

\* FlappyBirdsGame.register_socket_events: handle_start
HandleFlappyStart(sender) ==
    /\ "FlappyBirdsGame" \in DOMAIN instances
    /\ IF sender = ADMIN THEN Commit(FlappyStartGame(Begin)) ELSE Commit(Begin)
    /\ UNCHANGED <<Board, answers>>
    /\ KeepConnects

\* FlappyBirdsGame.register_socket_events: handle_end
HandleFlappyEnd(sender) ==
    /\ "FlappyBirdsGame" \in DOMAIN instances
    /\ CanAward
    /\ IF sender = ADMIN THEN Commit(BaseEndGame(Begin, "FlappyBirdsGame")) ELSE Commit(Begin)
    /\ UNCHANGED <<Board, answers>>
    /\ KeepConnects

\* FlappyBirdsGame.register_socket_events: handle_submit_score
HandleFlappySubmitScore(sender, score) ==
    /\ "FlappyBirdsGame" \in DOMAIN instances
    /\ IF sender # ADMIN /\ instances["FlappyBirdsGame"].is_active
       THEN Commit(FlappySubmitScore(Begin, sender, score))
       ELSE Commit(Begin)
    /\ UNCHANGED <<Board, answers>>
    /\ KeepConnects

\* BuzzerGame.register_socket_events: handle_start
HandleBuzzerStart(sender) ==
    /\ "BuzzerGame" \in DOMAIN instances
    /\ IF sender = ADMIN THEN Commit(BuzzerStart(Begin)) ELSE Commit(Begin)
    /\ UNCHANGED <<Board, answers>>
    /\ KeepConnects

\* BuzzerGame.register_socket_events: handle_reset
HandleBuzzerReset(sender) ==
    /\ "BuzzerGame" \in DOMAIN instances
    /\ IF sender = ADMIN THEN Commit(BuzzerReset(Begin)) ELSE Commit(Begin)
    /\ UNCHANGED <<Board, answers>>
    /\ KeepConnects

\* BuzzerGame.register_socket_events: handle_correct
HandleBuzzerCorrect(sender) ==
    /\ "BuzzerGame" \in DOMAIN instances
    /\ \A p \in Players : users[p].buzzer_score < MaxBuzzer
    /\ IF sender = ADMIN THEN Commit(BuzzerMarkCorrect(Begin)) ELSE Commit(Begin)
    /\ UNCHANGED <<Board, answers>>
    /\ KeepConnects

\* BuzzerGame.register_socket_events: handle_wrong
HandleBuzzerWrong(sender) ==
    /\ "BuzzerGame" \in DOMAIN instances
    /\ \A p \in Players : users[p].buzzer_score > -MaxBuzzer
    /\ IF sender = ADMIN THEN Commit(BuzzerMarkWrong(Begin)) ELSE Commit(Begin)
    /\ UNCHANGED <<Board, answers>>
    /\ KeepConnects

\* BuzzerGame.register_socket_events: handle_stop
HandleBuzzerStop(sender) ==
    /\ "BuzzerGame" \in DOMAIN instances
    /\ CanAward
    /\ IF sender = ADMIN THEN Commit(BaseEndGame(Begin, "BuzzerGame")) ELSE Commit(Begin)
    /\ UNCHANGED <<Board, answers>>
    /\ KeepConnects

\* BuzzerGame.register_socket_events: handle_buzz
HandleBuzzerBuzz(sender) ==
    /\ "BuzzerGame" \in DOMAIN instances
    /\ IF sender # ADMIN /\ instances["BuzzerGame"].is_active
       THEN Commit(BuzzerPlayerBuzz(Begin, sender))
       ELSE Commit(Begin)
    /\ UNCHANGED <<Board, answers>>
    /\ KeepConnects

\* player_buzz runs in the thread of its socket event, and other handlers run
\* between its database accesses.  First access: get_game_state and the check
\* that the buzzer is active and nobody has buzzed.
BuzzerBuzzRead(sender) ==
    /\ "BuzzerGame" \in DOMAIN instances
    /\ submitting[sender] = NotSubmitting
    /\ Commit(Begin)
    /\ submitting' = [submitting EXCEPT ![sender] =
            IF /\ sender # ADMIN
               /\ instances["BuzzerGame"].is_active
               /\ Get(get_game_state(Begin), "buzzer_active", FALSE)
               /\ Get(get_game_state(Begin), "current_buzzed_player", NULL) = NULL
            THEN [username |-> sender]
            ELSE NotSubmitting]
    /\ UNCHANGED <<Board, answers>>
    /\ last_connect' = last_connect
    /\ KeepBroadcast
    /\ KeepBuzzer

\* second access: the buzz is recorded through update_game_state and
\* everybody is told
BuzzerBuzzWrite(sender) ==
    /\ "BuzzerGame" \in DOMAIN instances
    /\ submitting[sender] # NotSubmitting
    /\ LET c  == "BuzzerGame"
           username == submitting[sender].username
           w1 == [Begin EXCEPT !.inst[c].buzzer_active = FALSE,
                               !.inst[c].current_buzzed_player = username]
           w2 == update_game_state(w1, [buzzer_active |-> FALSE,
                                        current_buzzed_player |-> username])
           w3 == emit_to_all_players(w2, "buzzer_buzzed", [username |-> username])
           w4 == emit_to_display(w3, "buzzer_buzzed", [username |-> username])
       IN  Commit(emit_to_admin(w4, "buzzer_player_buzzed", [username |-> username]))
    /\ submitting' = [submitting EXCEPT ![sender] = NotSubmitting]
    /\ UNCHANGED <<Board, answers>>
    /\ last_connect' = [p \in Players |->
            IF Durable' = Durable THEN last_connect[p] ELSE NotConnected]
    /\ KeepBroadcast
    /\ KeepBuzzer

\* the geo totals grow with every end_round: none is run once a total has
\* reached MaxTotal
GeoBounded ==
    LET totals == Get(game_state.game_data, "player_total_distances", <<>>)
    IN  \A i \in 1..Len(totals) : totals[i][2] < MaxTotal

\* GeoGuessrGame.register_socket_events: handle_start_round
HandleGeoStartRound(sender) ==
    /\ "GeoGuessrGame" \in DOMAIN instances
    /\ CanAward
    /\ IF sender = ADMIN THEN Commit(GeoStartRound(Begin)) ELSE Commit(Begin)
    /\ UNCHANGED <<Board, answers>>
    /\ KeepConnects

\* GeoGuessrGame.register_socket_events: handle_end_round
HandleGeoEndRound(sender) ==
    /\ "GeoGuessrGame" \in DOMAIN instances
    /\ GeoBounded
    /\ IF sender = ADMIN THEN Commit(GeoEndRound(Begin)) ELSE Commit(Begin)
    /\ UNCHANGED <<Board, answers>>
    /\ KeepConnects

\* GeoGuessrGame.register_socket_events: handle_submit_guess
HandleGeoSubmitGuess(sender, longitude) ==
    /\ "GeoGuessrGame" \in DOMAIN instances
    /\ IF sender # ADMIN /\ instances["GeoGuessrGame"].is_active
       THEN Commit(GeoSubmitGuess(Begin, sender, 0, longitude))
       ELSE Commit(Begin)
    /\ UNCHANGED <<Board, answers>>
    /\ KeepConnects

\* submit_guess runs in the thread of its socket event, and other handlers
\* run between its database accesses.  First access: get_game_state and the
\* status check; the handler goes on with the game_data it read.
GeoSubmitGuessRead(sender, longitude) ==
    /\ "GeoGuessrGame" \in DOMAIN instances
    /\ submitting[sender] = NotSubmitting
    /\ Commit(Begin)
    /\ submitting' = [submitting EXCEPT ![sender] =
            IF /\ sender # ADMIN
               /\ instances["GeoGuessrGame"].is_active
               /\ Get(get_game_state(Begin), "status", NULL) = "active"
            THEN [game_state |-> get_game_state(Begin), latitude |-> 0,
                  longitude |-> longitude]
            ELSE NotSubmitting]
    /\ UNCHANGED <<Board, answers>>
    /\ last_connect' = last_connect
    /\ KeepBroadcast
    /\ KeepBuzzer

\* second access: player_guesses, built from the game_data read before, goes
\* through update_game_state, and the participant is told
GeoSubmitGuessWrite(sender) ==
    /\ submitting[sender] # NotSubmitting
    /\ LET mine == submitting[sender]
           guess == [latitude |-> mine.latitude, longitude |-> mine.longitude]
           player_guesses == OdSet(Get(mine.game_state, "player_guesses", <<>>), sender, guess)
           w1 == update_game_state(Begin, [player_guesses |-> player_guesses])
       IN  Commit(emit_to_player(w1, sender, "geo_guessr_guess_submitted", guess))
    /\ submitting' = [submitting EXCEPT ![sender] = NotSubmitting]
    /\ UNCHANGED <<Board, answers>>
    /\ last_connect' = [p \in Players |->
            IF Durable' = Durable THEN last_connect[p] ELSE NotConnected]
    /\ KeepBroadcast
    /\ KeepBuzzer

----------------------------------------------------------------------------
(* app.py: the game board *)

QuestionPayload(q, index, total) ==
    [question |-> q.question_text, questionData |-> q,
     currentItemIndex |-> index, totalItems |-> total]

BuzzerQuestionTypes == {"text", "image", "audio", "video", "silhouette", "fg"}

\* handle_select_question, mm: question_selected to every participant's room
RECURSIVE QuestionToPlayers(_, _, _)
QuestionToPlayers(w, payload, i) ==
    IF i > Len(UserOrder) THEN w
    ELSE QuestionToPlayers(Emit(w, "question_selected", UserOrder[i], payload), payload, i + 1)

\* handle_select_question, for a question the session holds
SelectQuestionFound(sender, q) ==
    LET total == IF q.n_items > 0 THEN q.n_items ELSE 1
        payload == QuestionPayload(q, 0, total)
        forward == [question |-> q.question_text, questionData |-> q]
        selected == Emit(Begin, "question_selected", "broadcast", payload)
    IN  /\ answers' = SelectSeq(answers, LAMBDA a : a.question_id # q.id)
        /\ current_question_data' = q
        /\ total_items' = total
        /\ current_item_index' = 0
        /\ IF q.order_items
           THEN Commit(Emit(selected, "forward_to_ordering_game", "broadcast", payload))
           ELSE IF q.question_type = "gg" /\ q \in Unlocated
           THEN Commit(Emit(Begin, "error", "sender",
                            [message |-> "No location found for this geo_guessr question"]))
           ELSE IF q.question_type = "gg"
           THEN LET c  == "GeoGuessrGame"
                    w1 == ResetGameData([Begin EXCEPT !.gs.is_active = TRUE,
                                                      !.gs.active_game = "geo_guessr"])
                    w2 == [w1 EXCEPT !.inst = (c :> NewInstance(QuestionLocation)) @@ @,
                                     !.mgr = c]
                    w3 == Initialize(Log(w2, "initialize"), c)
                    w4 == Emit(w3, "forward_to_geo_guessr", "broadcast", forward)
                IN  Commit(Emit(w4, "game_started", "broadcast", [game |-> "geo_guessr"]))
           ELSE IF q.question_type = "mm"      \* every mm question has its category
           THEN LET c  == "MatchMeGame"
                    w1 == ResetGameData([Begin EXCEPT !.gs.is_active = TRUE,
                                                      !.gs.active_game = "match_me"])
                    w2 == [w1 EXCEPT !.inst = (c :> NewInstance(NoLocation)) @@ @,
                                     !.mgr = c]
                    w3 == Initialize(Log(w2, "initialize"), c)
                    w4 == Emit(w3, "question_selected", ADMIN, payload)
                    w5 == QuestionToPlayers(w4, payload, 1)
                    w6 == Emit(w5, "forward_to_match_me", "broadcast", forward)
                IN  Commit(Emit(w6, "game_started", "broadcast", [game |-> "match_me"]))
           ELSE IF q.question_type = "pg"
           THEN LET w1 == GameManager_start_game(Begin, "price_guesser").w
                    w2 == Emit(w1, "forward_to_price_guesser", "broadcast", forward)
                    w3 == Emit(w2, "pg_question_selected", "sender",
                               [question_text |-> q.question_text])
                IN  Commit(Emit(w3, "game_started", "broadcast", [game |-> "price_guesser"]))
           ELSE IF q.question_type = "tt"
           THEN LET w1 == GameManager_start_game(selected, "tt").w
                IN  Commit(Emit(w1, "forward_to_sorting_game", "broadcast", forward))
           ELSE IF q.question_type = "mc"
           THEN Commit(Emit(selected, "forward_to_mc", "broadcast", forward))
           ELSE IF q.input_expected
           THEN IF q.movie_id
                THEN Commit(Emit(selected, "forward_to_movie_guesser", "broadcast", payload))
                ELSE IF q.question_type = "ac"
                THEN Commit(Emit(selected, "forward_to_top_5", "broadcast",
                                 [question |-> q.question_text, questionData |-> q,
                                  previousGuesses |-> <<>>]))
                ELSE Commit(Emit(selected, "forward_to_input", "broadcast", forward))
           ELSE IF q.question_type \in BuzzerQuestionTypes
           THEN Commit(Emit(selected, "forward_to_buzzer", "broadcast", forward))
           ELSE Commit(selected)

\* handle_select_question, for a board position that holds no question
SelectQuestionMissing(sender) ==
    /\ Commit(Emit(Begin, "error", "sender", [message |-> "Question not found"]))
    /\ UNCHANGED <<Board, answers>>

\* handle_select_question: the silhouette phase is reset before the
\* question is looked up; the handler does not look at who sent the event
HandleSelectQuestion(sender, q) ==
    /\ silhouette_phase' = "idle"
    /\ IF q = NoQuestion THEN SelectQuestionMissing(sender) ELSE SelectQuestionFound(sender, q)
    /\ KeepClients
    /\ UNCHANGED current_buzzed_player

\* variant: handle_next_item whose bound check is off by one
HandleNextItem_past_last(sender) ==
    /\ IF sender # ADMIN
       THEN Commit(Begin) /\ UNCHANGED Board
       ELSE IF current_question_data = NoQuestion \/ total_items <= 1
       THEN /\ Commit(Emit(Begin, "error", "sender", [message |-> "No items to navigate"]))
            /\ UNCHANGED Board
       ELSE IF current_item_index >= total_items
       THEN Commit(Begin) /\ UNCHANGED Board
       ELSE /\ current_item_index' = current_item_index + 1
            /\ UNCHANGED <<current_question_data, total_items>>
            /\ Commit(Emit(Begin, "item_changed", "broadcast",
                   [currentItemIndex |-> current_item_index + 1, totalItems |-> total_items,
                    questionData |-> current_question_data]))
    /\ UNCHANGED answers
    /\ KeepConnects

\* handle_next_item
HandleNextItem(sender) ==
    /\ IF sender # ADMIN
       THEN Commit(Begin) /\ UNCHANGED Board
       ELSE IF current_question_data = NoQuestion \/ total_items <= 1
       THEN /\ Commit(Emit(Begin, "error", "sender", [message |-> "No items to navigate"]))
            /\ UNCHANGED Board
       ELSE IF current_item_index >= total_items - 1
       THEN Commit(Begin) /\ UNCHANGED Board
       ELSE /\ current_item_index' = current_item_index + 1
            /\ UNCHANGED <<current_question_data, total_items>>
            /\ Commit(Emit(Begin, "item_changed", "broadcast",
                   [currentItemIndex |-> current_item_index + 1, totalItems |-> total_items,
                    questionData |-> current_question_data]))
    /\ UNCHANGED answers
    /\ KeepConnects

\* handle_previous_item
HandlePreviousItem(sender) ==
    /\ IF sender # ADMIN
       THEN Commit(Begin) /\ UNCHANGED Board
       ELSE IF current_question_data = NoQuestion \/ total_items <= 1
       THEN /\ Commit(Emit(Begin, "error", "sender", [message |-> "No items to navigate"]))
            /\ UNCHANGED Board
       ELSE IF current_item_index <= 0
       THEN Commit(Begin) /\ UNCHANGED Board
       ELSE /\ current_item_index' = current_item_index - 1
            /\ UNCHANGED <<current_question_data, total_items>>
            /\ Commit(Emit(Begin, "item_changed", "broadcast",
                   [currentItemIndex |-> current_item_index - 1, totalItems |-> total_items,
                    questionData |-> current_question_data]))
    /\ UNCHANGED answers
    /\ KeepConnects

----------------------------------------------------------------------------
(* app.py: the buzzer of the board questions.  BuzzerGame binds handlers to *)
(* buzzer_buzz, buzzer_reset, buzzer_correct and buzzer_wrong as well, and  *)
(* an event has one handler: these serve until a BuzzerGame is created.     *)

\* handle_buzzer_buzz
handle_buzzer_buzz(sender) ==
    /\ "BuzzerGame" \notin DOMAIN instances
    /\ IF sender # ADMIN
       THEN /\ current_buzzed_player' = sender
            /\ LET w1 == Emit(Begin, "buzzer_player_buzzed", "broadcast", [username |-> sender])
               IN  IF /\ current_question_data # NoQuestion
                      /\ current_question_data.question_type = "silhouette"
                   THEN Commit(Emit(w1, "silhouette_pause_growth", "broadcast", EmptyDict))
                   ELSE Commit(w1)
       ELSE Commit(Begin) /\ UNCHANGED current_buzzed_player
    /\ UNCHANGED <<Board, answers, silhouette_phase>>
    /\ KeepClients

\* handle_buzzer_reset
handle_buzzer_reset(sender) ==
    /\ "BuzzerGame" \notin DOMAIN instances
    /\ IF sender = ADMIN
       THEN /\ current_buzzed_player' = NULL
            /\ Commit(Emit(Begin, "buzzer_reset", "broadcast", EmptyDict))
       ELSE Commit(Begin) /\ UNCHANGED current_buzzed_player
    /\ UNCHANGED <<Board, answers, silhouette_phase>>
    /\ KeepClients

\* points_to_award and points_to_deduct: 2 for a silhouette question that is
\* growing, 1 otherwise
BuzzerPoints ==
    IF /\ current_question_data # NoQuestion
       /\ current_question_data.question_type = "silhouette"
       /\ silhouette_phase = "growing"
    THEN 2 ELSE 1

\* handle_buzzer_correct
handle_buzzer_correct(sender) ==
    /\ "BuzzerGame" \notin DOMAIN instances
    /\ CanAward
    /\ IF sender # ADMIN THEN Commit(Begin) /\ UNCHANGED current_buzzed_player
       ELSE IF current_buzzed_player = NULL
       THEN /\ Commit(Emit(Begin, "buzzer_answer_correct", "broadcast", EmptyDict))
            /\ UNCHANGED current_buzzed_player
       ELSE LET w1 == [Begin EXCEPT !.users[current_buzzed_player].overall_score =
                                       @ + BuzzerPoints]
            IN  /\ Commit(Emit(w1, "buzzer_answer_correct", "broadcast",
                           [username |-> current_buzzed_player,
                            new_score |-> w1.users[current_buzzed_player].overall_score,
                            points_awarded |-> BuzzerPoints]))
                /\ current_buzzed_player' = NULL
    /\ UNCHANGED <<Board, answers, silhouette_phase>>
    /\ KeepClients

\* variant: handle_buzzer_wrong that deducts without the floor of 0
handle_buzzer_wrong_unfloored(sender) ==
    /\ "BuzzerGame" \notin DOMAIN instances
    /\ IF sender # ADMIN THEN Commit(Begin) /\ UNCHANGED current_buzzed_player
       ELSE IF current_buzzed_player = NULL
       THEN /\ Commit(Emit(Begin, "buzzer_answer_wrong", "broadcast", EmptyDict))
            /\ UNCHANGED current_buzzed_player
       ELSE LET w1 == [Begin EXCEPT !.users[current_buzzed_player].overall_score =
                                       @ - BuzzerPoints]
            IN  /\ Commit(Emit(w1, "buzzer_answer_wrong", "broadcast",
                           [username |-> current_buzzed_player,
                            new_score |-> w1.users[current_buzzed_player].overall_score,
                            points_deducted |-> BuzzerPoints]))
                /\ current_buzzed_player' = NULL
    /\ UNCHANGED <<Board, answers, silhouette_phase>>
    /\ KeepClients

\* handle_buzzer_wrong
handle_buzzer_wrong(sender) ==
    /\ "BuzzerGame" \notin DOMAIN instances
    /\ IF sender # ADMIN THEN Commit(Begin) /\ UNCHANGED current_buzzed_player
       ELSE IF current_buzzed_player = NULL
       THEN /\ Commit(Emit(Begin, "buzzer_answer_wrong", "broadcast", EmptyDict))
            /\ UNCHANGED current_buzzed_player
       ELSE LET old_score == users[current_buzzed_player].overall_score
                w1 == [Begin EXCEPT !.users[current_buzzed_player].overall_score =
                                       IF old_score - BuzzerPoints > 0
                                       THEN old_score - BuzzerPoints ELSE 0]
            IN  /\ Commit(Emit(w1, "buzzer_answer_wrong", "broadcast",
                           [username |-> current_buzzed_player,
                            new_score |-> w1.users[current_buzzed_player].overall_score,
                            points_deducted |-> BuzzerPoints]))
                /\ current_buzzed_player' = NULL
    /\ UNCHANGED <<Board, answers, silhouette_phase>>
    /\ KeepClients

\* handle_silhouette_start_growth
handle_silhouette_start_growth(sender) ==
    /\ IF sender = ADMIN
       THEN /\ silhouette_phase' = "growing"
            /\ Commit(Emit(Begin, "silhouette_start_growth", "broadcast", EmptyDict))
       ELSE Commit(Begin) /\ UNCHANGED silhouette_phase
    /\ UNCHANGED <<Board, answers, current_buzzed_player>>
    /\ KeepClients

\* handle_silhouette_color_reveal_started: sent by the display when its
\* animation reaches the colour phase; the handler does not look at the sender
handle_silhouette_color_reveal_started(sender) ==
    /\ silhouette_phase' = "revealing_color"
    /\ Commit(Begin)
    /\ UNCHANGED <<Board, answers, current_buzzed_player>>
    /\ KeepClients

----------------------------------------------------------------------------
(* app.py: answers to a Top 5 question *)

AnswerTexts == {"Paris", "paris ", "Rome"}

\* AnswerHandler.normalize_answer on the texts above: lower case, trimmed,
\* punctuation and articles removed, words joined
normalize_answer(answer) ==
    CASE answer \in {"Paris", "paris", "paris "} -> "paris"
      [] answer \in {"Rome", "rome"} -> "rome"
      [] answer \in {"", " "} -> ""

\* str.strip
Strip(answer) ==
    IF answer = "paris " THEN "paris" ELSE IF answer = " " THEN "" ELSE answer

RowsOf(table, username, question_id) ==
    SelectSeq(table, LAMBDA a : a.username = username /\ a.question_id = question_id)

\* handle_submit_top_5_answer
HandleSubmitTop5Answer(sender, question_id, answer) ==
    /\ LET answer_raw == Strip(answer)
           mine == RowsOf(answers, sender, question_id)
           answer_normalized == normalize_answer(answer_raw)
           round_num == Len(mine) + 1
           reply(ok, message) ==
               Emit(Begin, "top_5_answer_submitted", "sender", [success |-> ok, message |-> message])
       IN  IF sender \notin Players
           THEN Commit(reply(FALSE, "Invalid user")) /\ UNCHANGED answers
           ELSE IF \A q \in Questions : q.id # question_id
           THEN Commit(reply(FALSE, "Question not found")) /\ UNCHANGED answers
           ELSE IF Len(mine) >= 5
           THEN Commit(reply(FALSE, "You have already submitted 5 guesses!")) /\ UNCHANGED answers
           ELSE IF \E i \in 1..Len(mine) : mine[i].answer_normalized = answer_normalized
           THEN Commit(reply(FALSE, "You already submitted this answer!")) /\ UNCHANGED answers
           ELSE /\ answers' = Append(answers,
                       [username |-> sender, question_id |-> question_id, round |-> round_num,
                        answer_raw |-> answer_raw, answer_normalized |-> answer_normalized,
                        is_correct |-> FALSE])
                /\ Commit(Emit(Emit(Begin, "top_5_answer_received", "others",
                                    [question_id |-> question_id, username |-> sender,
                                     answer |-> answer_raw, guess_number |-> round_num]),
                               "top_5_answer_submitted", "sender",
                               [success |-> TRUE, guess_number |-> round_num]))
    /\ UNCHANGED Board
    /\ KeepConnects

----------------------------------------------------------------------------
(* games/ordering_game.py.  Scores are in ten-thousandths: round(score, 4)  *)

\* the OrderItem rows of question 1, by position
TrueItems ==
    <<[item_name |-> "a", position |-> 1], [item_name |-> "b", position |-> 2],
      [item_name |-> "c", position |-> 3], [item_name |-> "d", position |-> 4]>>

\* the OrderItem rows of question 15, the second ordering question
LaterItems == <<[item_name |-> "e", position |-> 1], [item_name |-> "f", position |-> 2]>>

OrderItemsOf(question_id) ==
    IF question_id = 1 THEN TrueItems
    ELSE IF question_id = 15 THEN LaterItems
    ELSE <<>>

\* what a client can put into an order: the names of the items and a name
\* that question 1 does not have
ItemNames == {TrueItems[i].item_name : i \in DOMAIN TrueItems} \cup {"x"}

\* round(1.0 - inversions / max_inversions, 4); no quotient of the sizes
\* modelled lies halfway between two ten-thousandths
Round4(num, den) == (20000 * num + den) \div (2 * den)

\* correct_positions[name]: a later row of a name replaces an earlier one
correct_positions(order_items, name) ==
    order_items[CHOOSE k \in DOMAIN order_items :
                   /\ order_items[k].item_name = name
                   /\ \A l \in DOMAIN order_items :
                         order_items[l].item_name = name => l <= k].position

\* variant: a pair counts when its items are in the true order
IsInversion_reversed(order_items, item_i, item_j) ==
    LET names == {order_items[k].item_name : k \in DOMAIN order_items}
    IN  /\ item_i \in names /\ item_j \in names
        /\ correct_positions(order_items, item_i) < correct_positions(order_items, item_j)

\* variant: a pair with a name the question does not have counts
IsInversion_unknown(order_items, item_i, item_j) ==
    LET names == {order_items[k].item_name : k \in DOMAIN order_items}
    IN  \/ item_i \notin names \/ item_j \notin names
        \/ correct_positions(order_items, item_i) > correct_positions(order_items, item_j)

\* the body of the double loop: the pair is skipped when an item is not in
\* correct_positions, and counted when pos_i > pos_j
IsInversion(order_items, item_i, item_j) ==
    LET names == {order_items[k].item_name : k \in DOMAIN order_items}
    IN  /\ item_i \in names /\ item_j \in names
        /\ correct_positions(order_items, item_i) > correct_positions(order_items, item_j)

\* OrderingGame.calculate_kendall_tau_score
calculate_kendall_tau_score(order_items, submitted_order) ==
    LET n == Len(submitted_order)
        inversions == Cardinality({ij \in (1..n) \X (1..n) :
                          /\ ij[1] < ij[2]
                          /\ IsInversion(order_items, submitted_order[ij[1]],
                                         submitted_order[ij[2]])})
        max_inversions == (n * (n - 1)) \div 2
    IN  IF max_inversions = 0 THEN 10000
        ELSE Round4(max_inversions - inversions, max_inversions)

\* register_socket_events: handle_submit_order.  question_id is 0 when the
\* client sent none, submitted_order is <<>> when it sent none
HandleSubmitOrder(sender, question_id, submitted_order) ==
    /\ "OrderingGame" \in DOMAIN instances
    /\ LET order_items == OrderItemsOf(question_id)
           score == calculate_kendall_tau_score(order_items, submitted_order)
           game_state_ == get_game_state(Begin)
           player_submissions ==
               OdSet(Get(game_state_, "player_submissions", <<>>), sender,
                     [order |-> submitted_order, score |-> score])
           stored == [player_submissions |-> player_submissions] @@ game_state_
           w1 == update_game_state(Begin, stored)
           w2 == Emit(w1, "order_submitted", "sender",
                      [success |-> TRUE, message |-> "Your order has been submitted!"])
           w3 == Emit(w2, "submission_update", "broadcast",
                      [count |-> Len(player_submissions), total |-> Cardinality(Players)])
       IN  IF \/ sender = ADMIN
              \/ question_id = 0 \/ submitted_order = <<>>
              \/ \A q \in Questions : q.id # question_id
              \/ order_items = <<>>
           THEN Commit(Begin)
           ELSE Commit(w3)
    /\ UNCHANGED <<Board, answers>>
    /\ KeepConnects

\* max(sub['score'] for sub in player_submissions.values())
MaxScore(player_submissions) ==
    CHOOSE m \in {player_submissions[i][2].score : i \in DOMAIN player_submissions} :
       \A i \in DOMAIN player_submissions : player_submissions[i][2].score <= m

\* variant: results in the order of submission
SortByScore_unsorted(results) == results

\* results.sort(key=score, reverse=True): descending, equal scores in list order
RECURSIVE SortByScore(_)
SortByScore(results) ==
    IF Len(results) <= 1 THEN results
    ELSE LET rest == SortByScore(Tail(results))
             before == SelectSeq(rest, LAMBDA e : e.score > Head(results).score)
             after == SelectSeq(rest, LAMBDA e : e.score <= Head(results).score)
         IN  before \o <<Head(results)>> \o after

\* for winner in winners: self.award_overall_point(winner)
RECURSIVE AwardEach(_, _)
AwardEach(w, winners) ==
    IF winners = <<>> THEN w
    ELSE AwardEach(award_overall_point(w, Head(winners)), Tail(winners))

\* register_socket_events: handle_end_ordering_round
HandleEndOrderingRound(sender, question_id) ==
    /\ "OrderingGame" \in DOMAIN instances
    /\ CanAward
    /\ LET order_items == OrderItemsOf(question_id)
           correct_order == [i \in DOMAIN order_items |-> order_items[i].item_name]
           player_submissions == Get(get_game_state(Begin), "player_submissions", <<>>)
           entries == SelectSeq(player_submissions,
                         LAMBDA e : e[2].score = MaxScore(player_submissions))
           winners == [i \in DOMAIN entries |-> entries[i][1]]
           w1 == AwardEach(Begin, winners)
           results == [i \in DOMAIN player_submissions |->
                         [username |-> player_submissions[i][1],
                          order |-> player_submissions[i][2].order,
                          score |-> player_submissions[i][2].score,
                          is_winner |-> \E k \in DOMAIN winners :
                                          winners[k] = player_submissions[i][1],
                          overall_score |->
                              IF player_submissions[i][1] \in Players
                              THEN w1.users[player_submissions[i][1]].overall_score
                              ELSE 0]]
       IN  IF sender # ADMIN \/ question_id = 0 THEN Commit(Begin)
           ELSE Commit(Emit(w1, "ordering_results", "broadcast",
                            [correct_order |-> correct_order, correct_items |-> order_items,
                             results |-> SortByScore(results), winners |-> winners]))
    /\ UNCHANGED <<Board, answers>>
    /\ KeepConnects

----------------------------------------------------------------------------
(* games/sorting_game.py.  Question 4 has two categories and two items, one  *)
(* of each category.                                                        *)

SortingQuestion == [id |-> 4, items |-> [i1 |-> 1, i2 |-> 2]]
SortingItems == SortingQuestion.items

\* random.shuffle(shuffled_items): any order of the items
SortingOrders == {<<"i1", "i2">>, <<"i2", "i1">>}

\* what get_player_state gives for a participant without a state
SortingNoState ==
    [score |-> 0, items_sorted |-> 0, completed |-> FALSE, item_order |-> <<>>,
     current_item_index |-> 0]

\* SortingGame.update_player_state
SortingUpdatePlayerState(w, username, state) ==
    LET player_states == Get(get_game_state(w), "player_states", <<>>)
    IN  update_game_state(w, [player_states |-> OdSet(player_states, username, state)])

\* SortingGame.get_player_state
SortingGetPlayerState(w, username) ==
    OdGet(Get(get_game_state(w), "player_states", <<>>), username, SortingNoState)

\* SortingGame.end_sorting_game after its check of game_ended, with the
\* game_data the check read
SortingEndWrite(w, game_state_) ==
    LET c  == "SortingGame"
        w1 == update_game_state(w, DictUpdate(game_state_, [game_ended |-> TRUE]))
        player_scores == [i \in DOMAIN UserOrder |->
            LET player_state == SortingGetPlayerState(w1, UserOrder[i])
            IN  [username |-> UserOrder[i], score |-> player_state.score,
                 items_sorted |-> player_state.items_sorted]]
        results == SortByScore(player_scores)
        winner == results[1].username
        w2 == [w1 EXCEPT !.users[winner].overall_score = @ + 1, !.ep[winner] = @ + 1]
        w3 == emit_to_all_players(w2, "sorting_game_ended", [results |-> results])
        w4 == emit_to_display(w3, "sorting_game_results", [results |-> results])
    IN  [w4 EXCEPT !.inst[c].is_active = FALSE]

\* SortingGame.end_sorting_game; whole: the call runs to its end, otherwise
\* it stops after the check, with the game_data it read in the trace
SortingEndSortingGame(w, whole) ==
    IF Get(get_game_state(w), "game_ended", FALSE) THEN w
    ELSE IF whole THEN SortingEndWrite(Log(w, "end_sorting_game"), get_game_state(w))
    ELSE Log(w, "end_sorting_game")

\* SortingGame.complete_player_game
SortingCompletePlayerGame(w, username, whole) ==
    LET player_state == [SortingGetPlayerState(w, username) EXCEPT !.completed = TRUE]
        w1 == SortingUpdatePlayerState(w, username, player_state)
        w2 == emit_to_player(w1, username, "sorting_game_player_completed",
                             [score |-> player_state.score])
    IN  SortingEndSortingGame(w2, whole)

\* SortingGame.send_next_item
SortingSendNextItem(w, username, whole) ==
    LET player_state == SortingGetPlayerState(w, username)
        current_index == player_state.current_item_index
        item_order == player_state.item_order
    IN  IF current_index >= Len(item_order)
        THEN SortingCompletePlayerGame(w, username, whole)
        ELSE emit_to_player(w, username, "sorting_game_item",
                 [item |-> item_order[current_index + 1],
                  progress |-> [current |-> current_index + 1, total |-> Len(item_order)]])

\* SortingGame.process_sort
SortingProcessSort(w, username, item_id, category_id, whole) ==
    LET c == "SortingGame"
        player_state == SortingGetPlayerState(w, username)
    IN  IF \/ ~w.inst[c].is_active
           \/ Get(get_game_state(w), "game_ended", FALSE)
           \/ player_state.completed
           \/ item_id \notin DOMAIN SortingItems
        THEN w
        ELSE LET is_correct == SortingItems[item_id] = category_id
                 score == IF is_correct THEN player_state.score + 10
                          ELSE IF player_state.score - 5 > 0 THEN player_state.score - 5
                          ELSE 0
                 items_sorted == player_state.items_sorted + 1
                 w1 == SortingUpdatePlayerState(w, username,
                           [player_state EXCEPT !.score = score,
                                                !.items_sorted = items_sorted,
                                                !.current_item_index = items_sorted])
                 w2 == emit_to_player(w1, username, "sorting_game_result",
                           [correct |-> is_correct, score |-> score,
                            items_sorted |-> items_sorted])
             IN  SortingSendNextItem(w2, username, whole)

\* start_game: the state of every participant, in the order of the users
RECURSIVE SortingSeedPlayers(_, _, _)
SortingSeedPlayers(w, order, i) ==
    IF i > Len(UserOrder) THEN w
    ELSE SortingSeedPlayers(
             SortingUpdatePlayerState(w, UserOrder[i],
                 [score |-> 0, items_sorted |-> 0, completed |-> FALSE,
                  item_order |-> order[UserOrder[i]], current_item_index |-> 0]),
             order, i + 1)

\* start_game: the game data and the first item, to every participant
RECURSIVE SortingSendGameData(_, _)
SortingSendGameData(w, i) ==
    IF i > Len(UserOrder) THEN w
    ELSE LET w1 == emit_to_player(w, UserOrder[i], "sorting_game_data",
                       [items |-> <<>>, total_items |-> Cardinality(DOMAIN SortingItems)])
         IN  SortingSendGameData(SortingSendNextItem(w1, UserOrder[i], TRUE), i + 1)

\* SortingGame.start_game; order: the shuffled items of every participant
SortingStartGame(w, question_id, order) ==
    LET c == "SortingGame"
    IN  IF Get(get_game_state(w), "status", NULL) = "active" THEN w
        ELSE LET w1 == [w EXCEPT !.inst[c].is_active = TRUE]
                 w2 == update_game_state(w1, [status |-> "active",
                                              question_id |-> question_id])
                 w3 == SortingSeedPlayers(w2, order, 1)
                 w4 == emit_to_all_players(w3, "sorting_game_countdown", [countdown |-> 3])
             IN  IF question_id # SortingQuestion.id THEN w2
                 ELSE SortingSendGameData(w4, 1)

\* register_socket_events: handle_start
HandleSortingStart(sender, question_id, order) ==
    /\ "SortingGame" \in DOMAIN instances
    /\ IF sender = ADMIN /\ question_id # 0
       THEN Commit(SortingStartGame(Begin, question_id, order))
       ELSE Commit(Begin)
    /\ UNCHANGED <<Board, answers>>
    /\ KeepConnects

\* register_socket_events: handle_submit_sort
HandleSortingSubmitSort(sender, item_id, category_id) ==
    /\ "SortingGame" \in DOMAIN instances
    /\ CanAward
    /\ IF sender # ADMIN /\ instances["SortingGame"].is_active
       THEN Commit(SortingProcessSort(Begin, sender, item_id, category_id, TRUE))
       ELSE Commit(Begin)
    /\ UNCHANGED <<Board, answers>>
    /\ KeepConnects

\* handle_submit_sort runs in the thread of its socket event, and other
\* handlers run between its database accesses.  Up to the check of game_ended
\* in end_sorting_game; a handler that does not get there has run to its end.
SortingSubmitSortRead(sender, item_id, category_id) ==
    /\ "SortingGame" \in DOMAIN instances
    /\ CanAward
    /\ submitting[sender] = NotSubmitting
    /\ LET w == IF sender # ADMIN /\ instances["SortingGame"].is_active
                THEN SortingProcessSort(Begin, sender, item_id, category_id, FALSE)
                ELSE Begin
           last == w.log[Len(w.log)]
       IN  /\ Commit(w)
           /\ submitting' = [submitting EXCEPT ![sender] =
                  IF last.step = "end_sorting_game"
                  THEN [game_state |-> last.game_data] ELSE NotSubmitting]
    /\ UNCHANGED <<Board, answers>>
    /\ last_connect' = [p \in Players |->
            IF Durable' = Durable THEN last_connect[p] ELSE NotConnected]
    /\ KeepBroadcast
    /\ KeepBuzzer

\* the rest of end_sorting_game, from the game_data read at the check
SortingSubmitSortWrite(sender) ==
    /\ "SortingGame" \in DOMAIN instances
    /\ CanAward
    /\ submitting[sender] # NotSubmitting
    /\ Commit(SortingEndWrite(Begin, submitting[sender].game_state))
    /\ submitting' = [submitting EXCEPT ![sender] = NotSubmitting]
    /\ UNCHANGED <<Board, answers>>
    /\ last_connect' = [p \in Players |->
            IF Durable' = Durable THEN last_connect[p] ELSE NotConnected]
    /\ KeepBroadcast
    /\ KeepBuzzer

----------------------------------------------------------------------------
(* games/coop_puzzle.py: the handlers, and the puzzle question that starts  *)
(* the game                                                                 *)

PuzzleQuestion == Question(13, "puzzle", FALSE, FALSE, FALSE, 0)

\* handle_select_question, for a puzzle question
SelectPuzzleQuestion(sender, shuffled) ==
    LET q  == PuzzleQuestion
        c  == "CoopPuzzleGame"
        w1 == ResetGameData([Begin EXCEPT !.gs.is_active = TRUE,
                                          !.gs.active_game = "coop_puzzle"])
        w2 == [w1 EXCEPT !.inst = (c :> NewInstance(NoLocation)) @@ @, !.mgr = c]
        w3 == CoopInitialize(Log(w2, "initialize"), shuffled)
        w4 == Emit(w3, "forward_to_coop_puzzle", "broadcast",
                   [question |-> q.question_text, questionData |-> q])
    IN  /\ answers' = SelectSeq(answers, LAMBDA a : a.question_id # q.id)
        /\ current_question_data' = q
        /\ total_items' = 1
        /\ current_item_index' = 0
        /\ Commit(Emit(w4, "game_started", "broadcast", [game |-> "coop_puzzle"]))
        /\ silhouette_phase' = "idle"
        /\ KeepClients
        /\ UNCHANGED current_buzzed_player

\* register_socket_events: handle_start
HandleCoopPuzzleStart(sender) ==
    /\ "CoopPuzzleGame" \in DOMAIN instances
    /\ IF sender = ADMIN THEN Commit(CoopStartGame(Begin)) ELSE Commit(Begin)
    /\ UNCHANGED <<Board, answers>>
    /\ KeepConnects

\* register_socket_events: handle_update_piece
HandleCoopPuzzleUpdatePiece(sender, piece_id, is_locked) ==
    /\ "CoopPuzzleGame" \in DOMAIN instances
    /\ CanAward
    /\ IF sender # ADMIN /\ instances["CoopPuzzleGame"].is_active
       THEN LET w1 == update_piece_position(Begin, sender, piece_id, is_locked)
                w2 == broadcast_team_progress(w1)
                winning_team == check_team_completion(w2)
            IN  IF ~is_locked THEN Commit(w1)
                ELSE IF winning_team = NULL THEN Commit(w2)
                ELSE Commit(handle_game_completion(w2, winning_team))
       ELSE Commit(Begin)
    /\ UNCHANGED <<Board, answers>>
    /\ KeepConnects

\* register_socket_events: handle_end
HandleCoopPuzzleEnd(sender) ==
    /\ "CoopPuzzleGame" \in DOMAIN instances
    /\ IF sender = ADMIN THEN Commit(CoopEndGame(Begin)) ELSE Commit(Begin)
    /\ UNCHANGED <<Board, answers>>
    /\ KeepConnects

----------------------------------------------------------------------------
(* games/match_me.py: the handlers *)

\* register_socket_events: handle_start
HandleMatchMeStart(sender) ==
    /\ "MatchMeGame" \in DOMAIN instances
    /\ IF sender = ADMIN THEN Commit(MatchMeStartGame(Begin)) ELSE Commit(Begin)
    /\ UNCHANGED <<Board, answers>>
    /\ KeepConnects

\* register_socket_events: handle_answer
HandleMatchMeAnswer(sender, artist_id, next_found) ==
    /\ "MatchMeGame" \in DOMAIN instances
    /\ CanAward
    /\ IF sender # ADMIN /\ instances["MatchMeGame"].is_active
       THEN Commit(MatchMeProcessAnswer(Begin, sender, artist_id, next_found, TRUE))
       ELSE Commit(Begin)
    /\ UNCHANGED <<Board, answers>>
    /\ KeepConnects

\* handle_answer runs in the thread of its socket event, and other handlers
\* run between its steps.  First step: the check of is_active, before the
\* first database access of process_answer.
MatchMeAnswerEnter(sender, artist_id, next_found) ==
    /\ "MatchMeGame" \in DOMAIN instances
    /\ submitting[sender] = NotSubmitting
    /\ Commit(Begin)
    /\ submitting' = [submitting EXCEPT ![sender] =
            IF sender # ADMIN /\ instances["MatchMeGame"].is_active
            THEN [at |-> "process_answer", artist_id |-> artist_id,
                  next_found |-> next_found]
            ELSE NotSubmitting]
    /\ UNCHANGED <<Board, answers>>
    /\ last_connect' = last_connect
    /\ KeepBroadcast
    /\ KeepBuzzer

\* process_answer, up to the check of winner_determined in determine_winner;
\* a handler that does not get there has run to its end
MatchMeAnswerProcess(sender) ==
    /\ "MatchMeGame" \in DOMAIN instances
    /\ submitting[sender] # NotSubmitting
    /\ submitting[sender].at = "process_answer"
    /\ LET mine == submitting[sender]
           w == MatchMeProcessAnswer(Begin, sender, mine.artist_id, mine.next_found, FALSE)
           last == w.log[Len(w.log)]
       IN  /\ Commit(w)
           /\ submitting' = [submitting EXCEPT ![sender] =
                  IF last.step = "winner_not_determined"
                  THEN [at |-> "determine_winner", game_state |-> last.game_data]
                  ELSE NotSubmitting]
    /\ UNCHANGED <<Board, answers>>
    /\ last_connect' = [p \in Players |->
            IF Durable' = Durable THEN last_connect[p] ELSE NotConnected]
    /\ KeepBroadcast
    /\ KeepBuzzer

\* the rest of determine_winner, from the game_data read at the check
MatchMeAnswerAward(sender) ==
    /\ "MatchMeGame" \in DOMAIN instances
    /\ CanAward
    /\ submitting[sender] # NotSubmitting
    /\ submitting[sender].at = "determine_winner"
    /\ Commit(MatchMeDetermineWinnerWrite(Begin, submitting[sender].game_state))
    /\ submitting' = [submitting EXCEPT ![sender] = NotSubmitting]
    /\ UNCHANGED <<Board, answers>>
    /\ last_connect' = [p \in Players |->
            IF Durable' = Durable THEN last_connect[p] ELSE NotConnected]
    /\ KeepBroadcast
    /\ KeepBuzzer

----------------------------------------------------------------------------
(* app.py: answers to an input question *)

InputTexts == {"Paris", "Rome", " "}

MovieTitle == "Paris"                \* Movie.title of the movie questions
MovieChoices == {NULL, "m1", "m2"}   \* data.get('movie_id'): none, the movie, another
MovieId == "m1"

\* AnswerHandler.check_movie_answer on the texts above: equal after
\* normalisation; the other text is far below the fuzzy threshold
check_movie_answer(user_answer, movie_title) ==
    user_answer # "" /\ movie_title # "" /\ user_answer = normalize_answer(movie_title)

\* a submission the handler turns down: the table stays, the sender is told
Rejected(table, event, message) ==
    [answers |-> table,
     out |-> <<[event |-> event, to |-> "sender",
                data |-> [success |-> FALSE, message |-> message]]>>]

\* variant: no stored answer counts as an answer for the round
AnsweredRound_never(mine, round_num) == FALSE

\* handle_submit_answer: the AnswerUser query for (user, question, round)
AnsweredRound(mine, round_num) == \E i \in DOMAIN mine : mine[i].round = round_num

\* handle_submit_answer: the table it leaves and the events it emits
submit_answer(table, sender, question_id, round_num, answer, submitted_movie_id) ==
    LET answer_raw == Strip(answer)
        found == {q \in Questions : q.id = question_id}
        question == CHOOSE q \in found : TRUE
        mine == RowsOf(table, sender, question_id)
        correct == SelectSeq(mine, LAMBDA a : a.is_correct)
        is_correct ==
            IF ~question.movie_id THEN FALSE
            ELSE IF submitted_movie_id # NULL THEN submitted_movie_id = MovieId
            ELSE check_movie_answer(normalize_answer(answer_raw), MovieTitle)
        row == [username |-> sender, question_id |-> question_id, round |-> round_num,
                answer_raw |-> answer_raw, answer_normalized |-> normalize_answer(answer_raw),
                is_correct |-> is_correct]
        stored == Append(table, row)
        received == [event |-> "input_answer_received", to |-> "others",
                     data |-> [question_id |-> question_id, username |-> sender,
                               total_submissions |->
                                   Len(SelectSeq(stored, LAMBDA a : a.question_id = question_id))]]
        guessed == [event |-> "player_guessed_correct", to |-> "broadcast",
                    data |-> [question_id |-> question_id, username |-> sender,
                              round |-> round_num, answer |-> answer_raw]]
        done == [event |-> "answer_submitted", to |-> "sender",
                 data |-> [success |-> TRUE, message |-> "Answer recorded!",
                           is_correct |-> is_correct]]
    IN  IF sender \notin Players THEN Rejected(table, "answer_submitted", "Invalid user")
        ELSE IF answer_raw = ""
        THEN Rejected(table, "answer_submitted", "Answer cannot be empty")
        ELSE IF found = {} THEN Rejected(table, "answer_submitted", "Question not found")
        ELSE IF correct # <<>>
        THEN Rejected(table, "answer_submitted", "You already guessed correctly")
        ELSE IF AnsweredRound(mine, round_num)
        THEN Rejected(table, "answer_submitted", "You have already answered for this round!")
        ELSE [answers |-> stored,
              out |-> IF is_correct THEN <<received, guessed, done>> ELSE <<received, done>>]

\* handle_submit_answer
HandleSubmitAnswer(sender, question_id, round_num, answer, submitted_movie_id) ==
    /\ LET r == submit_answer(answers, sender, question_id, round_num, answer,
                              submitted_movie_id)
       IN  /\ answers' = r.answers
           /\ Commit([Begin EXCEPT !.out = r.out])
    /\ UNCHANGED Board
    /\ KeepConnects

----------------------------------------------------------------------------
(* app.py: handle_connect *)

DISPLAY == "display"     \* a connection whose session holds no username

\* order_by(AnswerUser.round): ascending round, rows of one round in table order
RECURSIVE OrderByRound(_)
OrderByRound(found) ==
    IF Len(found) <= 1 THEN found
    ELSE LET rest == OrderByRound(Tail(found))
             before == SelectSeq(rest, LAMBDA a : a.round < Head(found).round)
             after == SelectSeq(rest, LAMBDA a : a.round >= Head(found).round)
         IN  before \o <<Head(found)>> \o after

\* "Case 1": a standalone game is active
ReplayGame(w, username) ==
    LET name == w.gs.active_game
        state == get_game_state(w)
        status == Get(state, "status", NULL)
        w1 == Emit(w, "game_started", "sender", [game |-> name])
        question_text == IF current_question_data # NoQuestion
                         THEN current_question_data.question_text ELSE "Match Me"
    IN  IF name = "geo_guessr" /\ w.mgr # NULL
        THEN IF status = "active" /\ Get(state, "current_round", 0) > 0
             THEN Emit(w1, "geo_guessr_round_started", "sender",
                       [round |-> state["current_round"],
                        total_rounds |-> Get(state, "total_rounds", 3)])
             ELSE IF status = "ready"
             THEN Emit(w1, "geo_guessr_ready", "sender",
                       [total_rounds |-> Get(state, "total_rounds", 3)])
             ELSE w1
        ELSE IF name = "flappy_birds" /\ w.mgr # NULL
        THEN IF status = "active"
             THEN LET w2 == Emit(w1, "flappy_birds_started", "sender", EmptyDict)
                      player_scores == Get(state, "player_scores", <<>>)
                  IN  IF OdHas(player_scores, username)
                      THEN Emit(w2, "flappy_birds_restore_score", "sender",
                                [high_score |-> OdGet(player_scores, username, 0)])
                      ELSE w2
             ELSE IF status = "ready"
             THEN Emit(w1, "flappy_birds_ready", "sender", EmptyDict)
             ELSE w1
        ELSE IF name = "match_me" /\ w.mgr # NULL
        THEN IF status = "active"
             THEN Emit(w1, "match_me_reconnect", "sender", EmptyDict)
             ELSE IF status = "ready"
             THEN Emit(w1, "match_me_ready", "sender", [question |-> question_text])
             ELSE w1
        ELSE w1

\* "Case 2": the game board shows a question
ReplayQuestion(w, username) ==
    LET q == current_question_data
        payload == QuestionPayload(q, current_item_index, total_items)
        forward == [question |-> q.question_text, questionData |-> q]
        w1 == Emit(w, "question_selected", "sender", payload)
        mine == OrderByRound(RowsOf(answers, username, q.id))
        previous_guesses == [i \in 1..Len(mine) |-> mine[i].answer_raw]
    IN  IF q.order_items THEN Emit(w1, "forward_to_ordering_game", "sender", payload)
        ELSE IF q.question_type = "pg" THEN Emit(w1, "forward_to_price_guesser", "sender", forward)
        ELSE IF q.input_expected /\ q.movie_id
        THEN Emit(w1, "forward_to_movie_guesser", "sender", payload)
        ELSE IF q.question_type = "ac"
        THEN Emit(w1, "forward_to_top_5", "sender",
                  [question |-> q.question_text, questionData |-> q,
                   previousGuesses |-> previous_guesses])
        ELSE IF q.question_type = "mc" THEN Emit(w1, "forward_to_mc", "sender", forward)
        ELSE IF q.input_expected THEN Emit(w1, "forward_to_input", "sender", forward)
        ELSE IF q.question_type \in BuzzerQuestionTypes
        THEN Emit(w1, "forward_to_buzzer", "sender", forward)
        ELSE w1

\* handle_connect that marks the platform active for whoever connects
ConnectUser_activates(w, username) ==
    LET w1 == Emit([w EXCEPT !.gs.is_active = TRUE], "user_joined", "broadcast",
                   [username |-> username])
    IN  IF username = ADMIN THEN w1
        ELSE IF w1.gs.active_game # NULL THEN ReplayGame(w1, username)
        ELSE IF current_question_data # NoQuestion THEN ReplayQuestion(w1, username)
        ELSE w1

\* handle_connect that replays the state once per participant
ConnectUser_replays_once(w, username) ==
    LET w1 == Emit(w, "user_joined", "broadcast", [username |-> username])
    IN  IF username = ADMIN \/ ~w1.gs.is_active THEN w1
        ELSE IF last_connect[username].connects > 0 THEN w1
        ELSE IF w1.gs.active_game # NULL THEN ReplayGame(w1, username)
        ELSE IF current_question_data # NoQuestion THEN ReplayQuestion(w1, username)
        ELSE w1

\* handle_connect, for a session with a username
ConnectUser(w, username) ==
    LET w1 == Emit(w, "user_joined", "broadcast", [username |-> username])
    IN  IF username = ADMIN \/ ~w1.gs.is_active THEN w1
        ELSE IF w1.gs.active_game # NULL THEN ReplayGame(w1, username)
        ELSE IF current_question_data # NoQuestion THEN ReplayQuestion(w1, username)
        ELSE w1

\* handle_connect, for the display
ConnectDisplay(w) ==
    IF /\ w.gs.is_active
       /\ w.gs.active_game = "match_me"
       /\ w.mgr # NULL
       /\ Get(get_game_state(w), "status", NULL) = "ready"
    THEN Emit(w, "match_me_ready", "sender",
              [question |-> IF current_question_data # NoQuestion
                            THEN current_question_data.question_text ELSE "Match Me"])
    ELSE w

HandleConnectWorld(session) ==
    IF session = DISPLAY THEN ConnectDisplay(Begin) ELSE ConnectUser(Begin, session)

\* handle_connect
HandleConnect(session) ==
    /\ Commit(HandleConnectWorld(session))
    /\ UNCHANGED <<Board, answers>>
    /\ last_connect' = [p \in Players |->
            IF p = session
            THEN [connects |-> IF last_connect[p].connects = 0 THEN 1 ELSE 2,
                  replay |-> HandleConnectWorld(session).out]
            ELSE IF Durable' = Durable THEN last_connect[p] ELSE NotConnected]
    /\ KeepBroadcast
    /\ KeepBuzzer
    /\ UNCHANGED submitting

----------------------------------------------------------------------------
(* The platform after start-up: a fresh GameState row, the participants     *)
(* registered, GameManager() built, and the utility handlers of             *)
(* movie_guesser, ordering_game and price_guesser bound                     *)
(* (setup_utility_handlers).                                                *)

NewUser == [overall_score |-> 0, flappy_birds_score |-> 0, geo_guessr_score |-> 0,
            buzzer_score |-> 0, match_me_score |-> 0]

\* GameManager.setup_utility_handlers: an instance bound to its handlers,
\* not initialized and not in the manager's slot
setup_utility_handlers(inst, name) ==
    IF name \notin DOMAIN games THEN inst
    ELSE (games[name] :> NewInstance(NoLocation)) @@ inst

\* GameManager.setup_utility_handlers that also puts the instance it builds
\* in the manager's slot
GameManager_setup_utility_handlers_activates(w, name) ==
    IF name \notin DOMAIN games THEN Log(w, "game_not_found")
    ELSE Log([w EXCEPT !.inst = setup_utility_handlers(@, name), !.mgr = games[name]],
             "register_socket_events")

\* GameManager.setup_utility_handlers, called on the running platform: the
\* instance it builds is a new object, the one in the manager's slot stays
\* as it is
GameManager_setup_utility_handlers(w, name) ==
    IF name \notin DOMAIN games THEN Log(w, "game_not_found")
    ELSE Log([w EXCEPT !.inst = IF w.mgr = games[name] THEN @
                                ELSE setup_utility_handlers(@, name)],
             "register_socket_events")

\* a call of game_manager.setup_utility_handlers(name)
SetupUtilityHandlers(name) ==
    /\ Commit(GameManager_setup_utility_handlers(Begin, name))
    /\ UNCHANGED <<Board, answers>>
    /\ KeepConnects

Init ==
    /\ game_state = [is_active |-> FALSE, active_game |-> NULL, game_data |-> EmptyDict]
    /\ users = [p \in Players |-> NewUser]
    /\ active_game = NULL
    /\ instances = setup_utility_handlers(
                     setup_utility_handlers(
                       setup_utility_handlers(EmptyDict, "movie_guesser"),
                       "ordering_game"),
                     "price_guesser")
    /\ current_question_data = NoQuestion
    /\ current_item_index = 0
    /\ total_items = 0
    /\ answers = <<>>
    /\ emitted = <<>>
    /\ steps = <<>>
    /\ epoch = NoAwards
    /\ last_connect = [p \in Players |-> NotConnected]
    /\ last_broadcast = NoBroadcast
    /\ submitting = [p \in Players |-> NotSubmitting]
    /\ current_buzzed_player = NULL
    /\ silhouette_phase = "idle"

----------------------------------------------------------------------------
(* Specifications.  Each takes the handlers of one part of the platform;    *)
(* all start from the platform after start-up.                              *)

\* the ids select_game is sent with: games the admin panel offers, one it
\* hides, and two the registry no longer holds
StartIds == {"flappy_birds", "price_guesser", "tt", "geo_guessr", "match_me"}

\* the operator's handlers that end a running game
EndingHandlers(s) ==
    \/ HandleEndGame(s)
    \/ HandleStartPlatform(s)
    \/ HandleStopPlatform(s)
    \/ HandleBackToGameBoard(s)
    \/ HandleAdminGotoGameBoard(s)
    \/ HandleAdminGotoWaitingRoom(s)

\* The manager's life cycle: games selected, started and ended, questions
\* put on the board.
LifecycleQuestions == {q \in Questions : q.id \in {2, 3, 4, 9}}

Next ==
    \/ \E g \in StartIds : HandleSelectGame(ADMIN, g)
    \/ HandleStartActualGame(ADMIN)
    \/ EndingHandlers(ADMIN)
    \/ \E q \in LifecycleQuestions \cup {NoQuestion} : HandleSelectQuestion(ADMIN, q)
    \/ HandleNextItem(ADMIN)
    \/ HandlePreviousItem(ADMIN)

Spec == Init /\ [][Next]_vars

\* One flappy game after another, played and ended in every way the
\* operator can end it.
NextFlappy ==
    \/ HandleSelectGame(ADMIN, "flappy_birds")
    \/ HandleStartActualGame(ADMIN)
    \/ HandleFlappyStart(ADMIN)
    \/ HandleFlappyEnd(ADMIN)
    \/ \E n \in 1..MaxFlappy : HandleFlappySubmitScore("p1", n)
    \/ HandleFlappySubmitScore("p2", 1)
    \/ EndingHandlers(ADMIN)

SpecFlappy == Init /\ [][NextFlappy]_vars

\* A geo question: selected from the board, its round played and ended.
NextGeo ==
    \/ \E q \in {q \in Questions : q.id = 2} : HandleSelectQuestion(ADMIN, q)
    \/ HandleStartActualGame(ADMIN)
    \/ HandleGeoStartRound(ADMIN)
    \/ HandleGeoEndRound(ADMIN)
    \/ \E p \in Players, lon \in GuessLongitudes : HandleGeoSubmitGuess(p, lon)
    \/ HandleEndGame(ADMIN)

SpecGeo == Init /\ [][NextGeo]_vars

\* Reconnection: participants, the operator and the display connect while
\* the platform is started, games run and questions are shown.
ReconnectQuestions == {q \in Questions : q.id \in {2, 7, 9}}

NextReconnect ==
    \/ \E s \in {ADMIN, "p1", DISPLAY} : HandleConnect(s)
    \/ HandleStartPlatform(ADMIN)
    \/ HandleSelectGame(ADMIN, "flappy_birds")
    \/ HandleStartActualGame(ADMIN)
    \/ \E n \in 1..MaxFlappy : HandleFlappySubmitScore("p1", n)
    \/ \E q \in ReconnectQuestions : HandleSelectQuestion(ADMIN, q)
    \/ HandleNextItem(ADMIN)
    \/ /\ current_question_data # NoQuestion   \* the client shows the Top 5 form
       /\ current_question_data.question_type = "ac"
       /\ \E a \in AnswerTexts : HandleSubmitTop5Answer("p1", current_question_data.id, a)

SpecReconnect == Init /\ [][NextReconnect]_vars

\* The game board: questions selected and paged through, participants
\* answering and connecting.
BoardQuestions == {q \in Questions : q.id \in {7, 9, 11}}

NextBoard ==
    \/ HandleStartPlatform(ADMIN)
    \/ \E q \in BoardQuestions : HandleSelectQuestion(ADMIN, q)
    \/ HandleNextItem(ADMIN)
    \/ HandlePreviousItem(ADMIN)
    \/ \E p \in Players : HandleConnect(p)

SpecBoard == Init /\ [][NextBoard]_vars

\* Resuming a game: participants connect while a game is selected and while
\* it runs, and before the platform is active.
\* answers to the input question on display: the client shows the form of
\* the displayed question only; "p1" answers freely, "p2" once
AnswerQuestions == {q \in Questions : q.id = 6}

NextAnswers ==
    \/ HandleStartPlatform(ADMIN)
    \/ \E q \in AnswerQuestions : HandleSelectQuestion(ADMIN, q)
    \/ HandleConnect("p1")
    \/ /\ current_question_data # NoQuestion
       /\ \/ \E r \in 1..MaxRound, a \in InputTexts, m \in MovieChoices :
                HandleSubmitAnswer("p1", current_question_data.id, r, a, m)
          \/ HandleSubmitAnswer("p2", current_question_data.id, 1, "Rome", NULL)

SpecAnswers == Init /\ [][NextAnswers]_vars

\* orders for the ordering question: the permutations of its items, and
\* orders over two of its items and a name it does not have
Injective(o) == \A i, j \in DOMAIN o : o[i] = o[j] => i = j

Permutations4 ==
    {o \in [1..Len(TrueItems) -> {TrueItems[i].item_name : i \in DOMAIN TrueItems}] :
        Injective(o)}

Malformed == {o \in UNION {[1..n -> {"a", "b", "x"}] : n \in 1..MaxOrder} : Injective(o)}

Orders == Permutations4 \cup Malformed

NextKendall ==
    \/ \E o \in Orders \cup {<<>>}, id \in {0, 1, 8} : HandleSubmitOrder("p1", id, o)
    \/ HandleSubmitOrder(ADMIN, 1, <<"a", "b", "c", "d">>)

SpecKendall == Init /\ [][NextKendall]_vars

\* the round of the ordering question, with a few orders
FewOrders == {<<"a", "b", "c", "d">>, <<"d", "c", "b", "a">>, <<"b", "a", "c", "d">>}

NextOrdering ==
    \/ \E p \in Players, o \in FewOrders : HandleSubmitOrder(p, 1, o)
    \/ \E s \in {ADMIN, "p1"}, id \in {0, 1} : HandleEndOrderingRound(s, id)

SpecOrdering == Init /\ [][NextOrdering]_vars

\* update_game_state and update_game_data on their own, called with every
\* dict over a few keys and values
MergeKeys == {"status", "current_buzzer", "winner"}
MergeValues == {"ready", "active"}
Partials == UNION {[ks -> MergeValues] : ks \in SUBSET MergeKeys}

UpdateGameState(data) ==
    /\ Commit(Log(update_game_state(Begin, data), "update_game_state"))
    /\ UNCHANGED <<Board, answers>>
    /\ KeepConnects

UpdateGameData(data) ==
    /\ Commit(Log(GameManager_update_game_data(Begin, data), "update_game_data"))
    /\ UNCHANGED <<Board, answers>>
    /\ KeepConnects

NextMerge ==
    \/ \E data \in Partials : UpdateGameState(data)
    \/ \E data \in Partials : UpdateGameData(data)

SpecMerge == Init /\ [][NextMerge]_vars

\* the geo round with submit_guess taken one database access at a time
NextRace ==
    \/ /\ game_state.active_game = NULL     \* one game at a time
       /\ \E q \in {q \in Questions : q.id = 2} : HandleSelectQuestion(ADMIN, q)
    \/ HandleStartActualGame(ADMIN)
    \/ HandleGeoEndRound(ADMIN)
    \/ \E p \in Players, lon \in GuessLongitudes : GeoSubmitGuessRead(p, lon)
    \/ \E p \in Players : GeoSubmitGuessWrite(p)

SpecRace == Init /\ [][NextRace]_vars

NextResume ==
    \/ \E g \in {"flappy_birds", "buzzer", "price_guesser"} : HandleSelectGame(ADMIN, g)
    \/ \E q \in {q \in Questions : q.id = 2} : HandleSelectQuestion(ADMIN, q)
    \/ HandleStartActualGame(ADMIN)
    \/ HandleBuzzerStart(ADMIN)
    \/ HandleStopPlatform(ADMIN)
    \/ \E p \in Players : HandleConnect(p)

SpecResume == Init /\ [][NextResume]_vars

\* the buzzer with player_buzz taken one database access at a time
NextBuzzer ==
    \/ /\ game_state.active_game = NULL     \* one game at a time
       /\ HandleSelectGame(ADMIN, "buzzer")
    \/ HandleBuzzerStart(ADMIN)
    \/ HandleBuzzerReset(ADMIN)
    \/ HandleBuzzerCorrect(ADMIN)
    \/ \E s \in Sessions : HandleBuzzerBuzz(s)
    \/ \E p \in Players : BuzzerBuzzRead(p)
    \/ \E p \in Players : BuzzerBuzzWrite(p)

SpecBuzzer == Init /\ [][NextBuzzer]_vars

\* the sorting game, with the end of the game taken one database access at
\* a time
SortIds == DOMAIN SortingItems \cup {"i9"}

NextSorting ==
    \/ /\ game_state.active_game = NULL     \* one game at a time
       /\ \E q \in {q \in Questions : q.id = SortingQuestion.id} : HandleSelectQuestion(ADMIN, q)
    \/ \E id \in {0, 2, SortingQuestion.id}, order \in [Players -> SortingOrders] :
          HandleSortingStart(ADMIN, id, order)
    \/ \E p \in Players, item_id \in SortIds, category_id \in {1, 2} :
          HandleSortingSubmitSort(p, item_id, category_id)
    \/ \E p \in Players, item_id \in SortIds, category_id \in {1, 2} :
          SortingSubmitSortRead(p, item_id, category_id)
    \/ \E p \in Players : SortingSubmitSortWrite(p)

SpecSorting == Init /\ [][NextSorting]_vars

\* Match Me.  The operator starts a game once, when it is ready; the first
\* participant gives no more than MaxWrong wrong answers in a game, the
\* second none.
MatchMeWrongs(p) ==
    LET player_state == OdGet(Get(game_state.game_data, "player_states", <<>>), p,
                              MatchMeNoState)
    IN  player_state.current_question - player_state.correct_answers

MatchMeInputs ==
    {i \in [sender : Players, artist_id : {"a0", "a1", NULL}, next_found : BOOLEAN] :
        /\ i.artist_id = "a1" => MatchMeWrongs(i.sender) < MaxWrong
        /\ i.sender # UserOrder[1] => i.artist_id = "a0"}

NextMatchMe ==
    \/ /\ game_state.active_game = NULL     \* one game at a time
       /\ \E q \in {q \in Questions : q.question_type = "mm"} : HandleSelectQuestion(ADMIN, q)
    \/ /\ Get(game_state.game_data, "status", NULL) = "ready"
       /\ HandleMatchMeStart(ADMIN)
    \/ HandleEndGame(ADMIN)
    \/ \E i \in MatchMeInputs : HandleMatchMeAnswer(i.sender, i.artist_id, i.next_found)

SpecMatchMe == Init /\ [][NextMatchMe]_vars

\* one Match Me game with handle_answer taken one step at a time

NextMatchMeRace ==
    \/ /\ game_state.active_game = NULL
       /\ \E q \in {q \in Questions : q.question_type = "mm"} : HandleSelectQuestion(ADMIN, q)
    \/ /\ Get(game_state.game_data, "status", NULL) = "ready"
       /\ HandleMatchMeStart(ADMIN)
    \/ \E i \in MatchMeInputs : MatchMeAnswerEnter(i.sender, i.artist_id, i.next_found)
    \/ \E p \in Players : MatchMeAnswerProcess(p)
    \/ \E p \in Players : MatchMeAnswerAward(p)

SpecMatchMeRace == Init /\ [][NextMatchMeRace]_vars

\* setup_utility_handlers called with every id of the registry and two the
\* registry does not hold, between and during games
SetupIds == DOMAIN games \cup {"match_me", "geo_guessr"}

NextSetup ==
    \/ \E g \in {"flappy_birds", "buzzer"} : HandleSelectGame(ADMIN, g)
    \/ HandleEndGame(ADMIN)
    \/ \E name \in SetupIds : SetupUtilityHandlers(name)

SpecSetup == Init /\ [][NextSetup]_vars

\* The cooperative puzzle: "p1" places the pieces in the order of their
\* ids, dragging a piece before it locks or not, and may move the first
\* piece again; "p2" moves the first piece only.
PieceInputs ==
    {i \in [username : Players, piece_id : 1..(rows * cols), isLocked : BOOLEAN] :
        /\ "CoopPuzzleGame" \in DOMAIN instances
        /\ LET mine == instances["CoopPuzzleGame"].player_states[i.username]
               locked == {k \in DOMAIN mine : mine[k].isLocked}
           IN  \/ i.piece_id = 1
               \/ /\ i.username = "p1"
                  /\ i.piece_id - 1 \in locked
                  /\ i.piece_id \notin locked}

NextCoopPuzzle ==
    \/ /\ game_state.active_game = NULL
       /\ \E shuffled \in Shuffles : SelectPuzzleQuestion(ADMIN, shuffled)
    \/ /\ Get(game_state.game_data, "status", NULL) = "ready"
       /\ HandleCoopPuzzleStart(ADMIN)
    \/ HandleCoopPuzzleEnd(ADMIN)
    \/ \E i \in PieceInputs : HandleCoopPuzzleUpdatePiece(i.username, i.piece_id, i.isLocked)

SpecCoopPuzzle == Init /\ [][NextCoopPuzzle]_vars

\* The buzzer of the board: a question of a buzzer type is on the board,
\* participants buzz, the operator resets and marks; the display reports
\* the colour phase of a silhouette.
BuzzerBoardQuestions == {q \in Questions : q.id \in {9, 14}}

NextBuzzerBoard ==
    \/ \E q \in BuzzerBoardQuestions : HandleSelectQuestion(ADMIN, q)
    \/ \E p \in Players : handle_buzzer_buzz(p)
    \/ handle_buzzer_reset(ADMIN)
    \/ handle_buzzer_correct(ADMIN)
    \/ handle_buzzer_wrong(ADMIN)
    \/ handle_silhouette_start_growth(ADMIN)
    \/ handle_silhouette_color_reveal_started(DISPLAY)

SpecBuzzerBoard == Init /\ [][NextBuzzerBoard]_vars

\* The operator's controls, sent by the operator and by a participant.
ControlQuestions == {q \in Questions : q.id \in {9, 14}}

OperatorEvents(s) ==
    \/ HandleSelectGame(s, "flappy_birds")
    \/ HandleStartActualGame(s)
    \/ HandleEndGame(s)
    \/ \E q \in ControlQuestions : HandleSelectQuestion(s, q)
    \/ HandleNextItem(s)
    \/ HandlePreviousItem(s)
    \/ HandleStartPlatform(s)
    \/ HandleStopPlatform(s)
    \/ handle_silhouette_start_growth(s)
    \/ handle_silhouette_color_reveal_started(s)
    \/ handle_buzzer_reset(s)
    \/ HandleEndOrderingRound(s, 1)

NextControls == \E s \in {ADMIN, "p1"} : OperatorEvents(s)

SpecControls == Init /\ [][NextControls]_vars

\* Two ordering questions, one after the other: the client sends orders of
\* the items of the question on display, under its id, and the operator
\* ends the round of the question on display.
OrderingQuestions == {q \in Questions : q.order_items}

OrdersOf(question_id) ==
    LET items == OrderItemsOf(question_id)
        forward == [i \in DOMAIN items |-> items[i].item_name]
    IN  {forward, [i \in DOMAIN items |-> forward[Len(items) + 1 - i]]}

NextOrderingRounds ==
    \/ \E q \in OrderingQuestions : HandleSelectQuestion(ADMIN, q)
    \/ /\ current_question_data # NoQuestion
       /\ \/ \E p \in Players, o \in OrdersOf(current_question_data.id) :
                HandleSubmitOrder(p, current_question_data.id, o)
          \/ HandleEndOrderingRound(ADMIN, current_question_data.id)

SpecOrderingRounds == Init /\ [][NextOrderingRounds]_vars

----------------------------------------------------------------------------
(* Properties *)

\* a step of the given kind is in a handler's trace
Ran(log, step) == \E i \in DOMAIN log : log[i].step = step

\* the ids under which the manager holds an instance of a class: its keys in
\* the registry, and "geo_guessr" for the instance select_question builds
IdsOf(c) ==
    {n \in DOMAIN games : games[n] = c}
        \cup (IF c = "GeoGuessrGame" THEN {"geo_guessr"} ELSE {})

SameButStatus(a, b) ==
    /\ DOMAIN a \ {"status"} = DOMAIN b \ {"status"}
    /\ \A k \in DOMAIN a \ {"status"} : a[k] = b[k]

\* C2: GameManager.end_game on an active game first ends the module, whose
\* determine_winner sees game_data as it was when end_game was called; then
\* it clears active_game and resets game_data in the State Store, with the
\* instance still held; then it drops the instance.
EndGameOrder ==
    \A i \in DOMAIN steps : steps[i].step = "end_game" =>
        /\ i + 3 <= Len(steps)
        /\ steps[i + 1].step = "determine_winner"
        /\ SameButStatus(steps[i + 1].game_data, steps[i].game_data)
        /\ steps[i + 1].manager = steps[i].manager
        /\ steps[i + 2].step = "reset_game_data"
        /\ steps[i + 2].game_data = EmptyDict
        /\ steps[i + 2].active_game = NULL
        /\ steps[i + 2].manager = steps[i].manager
        /\ steps[i + 3].step = "drop_reference"
        /\ steps[i + 3].manager = NULL

\* the manager ended a flappy game that held submitted scores
EndedGameWithScores ==
    \E i \in DOMAIN steps :
        /\ steps[i].step = "end_game"
        /\ steps[i].active_game = "flappy_birds"
        /\ Get(steps[i].game_data, "player_scores", <<>>) # <<>>
        /\ active_game = NULL
        /\ game_state.game_data = EmptyDict

\* C3: in every handler that ends a running game, determine_winner runs
\* before any reset of game_data, and reads game_data as the handler found it.
WinnerBeforeReset ==
    \A i \in DOMAIN steps : steps[i].step = "determine_winner" =>
        /\ \A j \in DOMAIN steps : steps[j].step = "reset_game_data" => i < j
        /\ SameButStatus(steps[i].game_data, steps[1].game_data)

\* C4: a successful start_game leaves is_active set and active_game = id in
\* the State Store, the manager holding a new instance on which initialize
\* ran, and game_data as initialize writes it on an empty State Store: no key
\* of the game before survives.
StartGameIsFresh ==
    [][\A g \in StartIds \cap DOMAIN games : HandleSelectGame(ADMIN, g) =>
          LET empty == [Begin EXCEPT !.gs.game_data = EmptyDict]
              clean == GameManager_start_game(empty, g).w
          IN  /\ game_state'.is_active
              /\ game_state'.active_game = g
              /\ active_game' = games[g]
              /\ Ran(steps', "initialize")
              /\ instances'[games[g]] = [NewInstance(NoLocation) EXCEPT !.is_active = TRUE]
              /\ game_state'.game_data = clean.gs.game_data
              /\ DOMAIN game_state'.game_data \cap
                    {"current_location", "player_guesses", "round_results"} = {}]_vars

\* price_guesser was started over a game that had left keys in game_data
StartedOverGameData ==
    /\ Ran(steps, "initialize")
    /\ steps[1].game_data # EmptyDict
    /\ game_state.active_game = "price_guesser"
    /\ game_state.game_data = EmptyDict

\* C5: start_game with an id the registry does not hold fails and changes
\* neither the State Store nor the instance the manager holds.
UnknownGameChangesNothing ==
    [][\A g \in StartIds \ DOMAIN games : HandleSelectGame(ADMIN, g) =>
          /\ UNCHANGED <<game_state, active_game, instances>>
          /\ ~Ran(steps', "initialize")
          /\ emitted' = <<>>]_vars

\* an unknown id was sent while a game was running
UnknownGameWhileRunning ==
    /\ Ran(steps, "game_not_found")
    /\ active_game # NULL
    /\ game_state.active_game # NULL

\* C6: the operator's end_game with no instance held fails, changes neither
\* the State Store nor the displayed question, and is acknowledged to the
\* operator.
EndGameWithoutGameIsNoOp ==
    [][(HandleEndGame(ADMIN) /\ active_game = NULL) =>
          /\ Ran(steps', "no_active_game")
          /\ UNCHANGED <<game_state, current_question_data, current_item_index, total_items>>
          /\ emitted' # <<>>]_vars

\* C7: when the end of a game is signalled again right after it was signalled,
\* the second determine_winner awards nothing.
EndSignalAwardsOnce ==
    [][(Ran(steps, "determine_winner") /\ Ran(steps', "determine_winner")) =>
          \A p \in Players : users'[p].overall_score = users[p].overall_score]_vars

\* C8: a determine_winner of the geo game that finds winner_determined set
\* awards nothing; one that does not find it awards 1 to each participant
\* with a geo score and 0 to the others; so no participant is awarded more
\* than 1 while game_data is not cleared.
GeoAwardsOnce ==
    [][/\ \A p \in Players : epoch'[p] <= 1
       /\ \A i \in DOMAIN steps' : steps'[i].step = "determine_winner" =>
             \A p \in Players :
                users'[p].overall_score = users[p].overall_score +
                    (IF /\ ~Get(steps'[i].game_data, "winner_determined", FALSE)
                        /\ users[p].geo_guessr_score > 0
                     THEN 1 ELSE 0)]_vars

\* determine_winner ran on a geo game whose winner had been awarded
GeoWinnerDeterminedTwice ==
    /\ \E i \in DOMAIN steps :
          /\ steps[i].step = "determine_winner"
          /\ Get(steps[i].game_data, "winner_determined", FALSE)
    /\ \E p \in Players : epoch[p] = 1
    /\ \E p \in Players : epoch[p] = 0

\* C9: handle_connect changes neither the State Store, nor a score, nor the
\* stored answers, nor the displayed question, its item index and item count.
ConnectIsReadOnly ==
    [][\A s \in Sessions \cup {DISPLAY} : HandleConnect(s) => UNCHANGED Durable]_vars

\* a participant connected to a running flappy game that holds their score
ConnectedToRunningGame ==
    /\ last_connect["p1"].connects > 0
    /\ \E i \in DOMAIN emitted : emitted[i].event = "flappy_birds_restore_score"
    /\ emitted = last_connect["p1"].replay

ReplayMatchesBroadcast ==
    [][\A p \in Players :
          (/\ HandleConnect(p)
           /\ game_state.is_active
           /\ game_state.active_game = NULL
           /\ current_question_data # NoQuestion) =>
              \E i \in DOMAIN emitted' :
                 /\ emitted'[i].event = "question_selected"
                 /\ emitted'[i].to = "sender"
                 /\ emitted'[i].data.questionData = last_broadcast.questionData
                 /\ emitted'[i].data.currentItemIndex = last_broadcast.currentItemIndex
                 /\ emitted'[i].data.totalItems = last_broadcast.totalItems]_vars

\* the event with which each module announces that it is ready, and that it
\* has started
ReadyEvent ==
    [flappy_birds |-> "flappy_birds_ready", geo_guessr |-> "geo_guessr_ready",
     buzzer |-> "buzzer_ready"]
StartedEvent ==
    [flappy_birds |-> "flappy_birds_started", geo_guessr |-> "geo_guessr_round_started",
     buzzer |-> "buzzer_started"]

\* C12: a participant who connects while the platform and a game are active
\* is sent, to them only, game_started naming the game and next the event
\* that resumes the module: its started event when game_data holds status
\* 'active', its ready event when it holds 'ready'; with the platform
\* inactive the participant is sent nothing about a game.
ConnectResumesGame ==
    [][\A p \in Players : HandleConnect(p) =>
          LET name   == game_state.active_game
              status == Get(game_state.game_data, "status", NULL)
              sent   == SelectSeq(emitted', LAMBDA e : e.to = "sender")
          IN  IF ~game_state.is_active THEN sent = <<>>
              ELSE name # NULL =>
                     /\ Len(sent) >= 1
                     /\ sent[1].event = "game_started"
                     /\ sent[1].data.game = name
                     /\ (status = "active" /\ name \in DOMAIN StartedEvent) =>
                            Len(sent) >= 2 /\ sent[2].event = StartedEvent[name]
                     /\ (status = "ready" /\ name \in DOMAIN ReadyEvent) =>
                            Len(sent) >= 2 /\ sent[2].event = ReadyEvent[name]]_vars

\* the participant's stored texts for the displayed question, in round order
Submitted(p) ==
    LET mine == OrderByRound(RowsOf(answers, p, current_question_data.id))
    IN  [i \in 1..Len(mine) |-> mine[i].answer_raw]

\* C13: a participant with stored answers for the displayed question who
\* connects (platform active, no game active) is sent those answers, and no
\* event of the connection carries whether an answer is correct.
ReconnectRestoresSubmissions ==
    [][\A p \in Players :
          (/\ HandleConnect(p)
           /\ game_state.is_active
           /\ game_state.active_game = NULL
           /\ current_question_data # NoQuestion
           /\ Submitted(p) # <<>>) =>
              /\ \E i \in DOMAIN emitted' :
                    /\ emitted'[i].to = "sender"
                    /\ "previousGuesses" \in DOMAIN emitted'[i].data
                    /\ emitted'[i].data.previousGuesses = Submitted(p)
              /\ \A i \in DOMAIN emitted' :
                    "is_correct" \notin DOMAIN emitted'[i].data]_vars

\* C14: a submit_answer of a participant who has a stored answer for the same
\* question and round is answered by a failing answer_submitted alone and
\* leaves the answers table, that first record included, as it was.
DuplicateAnswerRejected ==
    [][\A p \in Players, r \in 1..MaxRound, a \in InputTexts, m \in MovieChoices :
          \A q \in AnswerQuestions :
             (/\ HandleSubmitAnswer(p, q.id, r, a, m)
              /\ \E i \in DOMAIN answers :
                    /\ answers[i].username = p
                    /\ answers[i].question_id = q.id
                    /\ answers[i].round = r) =>
                 /\ answers' = answers
                 /\ Len(emitted') = 1
                 /\ emitted'[1].event = "answer_submitted"
                 /\ emitted'[1].to = "sender"
                 /\ ~emitted'[1].data.success]_vars

\* a second answer for a round, after a first that was not the movie, turned down
DuplicateAnswerTurnedDown ==
    /\ Len(emitted) = 1
    /\ emitted[1].event = "answer_submitted"
    /\ "message" \in DOMAIN emitted[1].data
    /\ emitted[1].data.message = "You have already answered for this round!"
    /\ \E i \in DOMAIN answers : answers[i].username = "p1" /\ ~answers[i].is_correct

\* the guesses of the round in the State Store
Guesses(gs) == Get(gs.game_data, "player_guesses", <<>>)

\* C15: a geo_guessr_submit_guess of a participant who has a guess recorded
\* in the open round is rejected: the recorded guesses stay as they were and
\* the participant is sent no geo_guessr_guess_submitted.
GuessRecordedOnce ==
    [][\A p \in Players, lon \in GuessLongitudes :
          (/\ HandleGeoSubmitGuess(p, lon)
           /\ Get(game_state.game_data, "status", NULL) = "active"
           /\ OdHas(Guesses(game_state), p)) =>
              /\ Guesses(game_state') = Guesses(game_state)
              /\ \A i \in DOMAIN emitted' :
                    emitted'[i].event # "geo_guessr_guess_submitted"]_vars

\* C16: a guess that finds the round not open is dropped at once, and a
\* submit_guess that completes while the round is not open (end_round has
\* stored the results, or the game has ended) leaves player_guesses as it was.
StaleGuessRejected ==
    [][\A p \in Players :
          Get(game_state.game_data, "status", NULL) # "active" =>
             /\ \A lon \in GuessLongitudes :
                   GeoSubmitGuessRead(p, lon) =>
                      /\ submitting'[p] = NotSubmitting
                      /\ Guesses(game_state') = Guesses(game_state)
             /\ GeoSubmitGuessWrite(p) => Guesses(game_state') = Guesses(game_state)]_vars

\* C17: a submit_guess that completes in the open round leaves the guess of
\* every other participant in game_data, whatever it read before.
NoLostGuess ==
    [][\A p \in Players :
          (GeoSubmitGuessWrite(p) /\ Get(game_state.game_data, "status", NULL) = "active") =>
             \A o \in OdKeys(Guesses(game_state)) \ {p} :
                /\ OdHas(Guesses(game_state'), o)
                /\ OdGet(Guesses(game_state'), o, NULL) = OdGet(Guesses(game_state), o, NULL)]_vars

\* C18: after update_game_state(partial), and after update_game_data(partial),
\* game_data holds the keys it held and those of partial, every key of
\* partial with the value partial gives it and every other key with the
\* value it had.
MergeIsKeyLevel ==
    [][\A data \in Partials :
          (UpdateGameState(data) \/ UpdateGameData(data)) =>
             LET before == game_state.game_data
                 after  == game_state'.game_data
             IN  /\ DOMAIN after = DOMAIN before \cup DOMAIN data
                 /\ \A k \in DOMAIN data : after[k] = data[k]
                 /\ \A k \in DOMAIN before \ DOMAIN data : after[k] = before[k]]_vars

\* an update that gave one key a new value and left another key alone
MergedOverExistingData ==
    /\ Len(steps) = 2
    /\ steps[2].step = "update_game_state"
    /\ {"status", "winner"} \subseteq DOMAIN steps[1].game_data
    /\ steps[2].game_data["status"] # steps[1].game_data["status"]
    /\ steps[2].game_data["winner"] = steps[1].game_data["winner"]
    /\ "current_buzzer" \notin DOMAIN steps[2].game_data

\* the cumulative distances in a game_data
Totals(game_data) == Get(game_data, "player_total_distances", <<>>)

\* the winner rule: all participants at or under the threshold if there is
\* one, else one participant at the least cumulative distance
IsWinnerSet(winners, totals) ==
    LET within == {totals[i][1] : i \in {j \in DOMAIN totals :
                                            totals[j][2] <= PERFECT_GUESS_THRESHOLD}}
    IN  IF within # {} THEN winners = within
        ELSE IF totals = <<>> THEN winners = {}
        ELSE \E i \in DOMAIN totals :
                /\ winners = {totals[i][1]}
                /\ \A j \in DOMAIN totals : totals[i][2] <= totals[j][2]

\* C19: an end_round that computes results leaves a geo score with the
\* participants the winner rule names on the cumulative distances, and with
\* no one else; a determine_winner that awards gives one overall point to
\* each of the participants the rule names on the cumulative distances of
\* the game, and none to the others.
GeoWinnerRule ==
    [][/\ (/\ HandleGeoEndRound(ADMIN)
           /\ Get(game_state.game_data, "current_location", NoLocation) # NoLocation) =>
              IsWinnerSet({p \in Players : users'[p].geo_guessr_score > 0},
                          Totals(game_state'.game_data))
       /\ \A i \in DOMAIN steps' :
             (/\ steps'[i].step = "determine_winner"
              /\ ~Get(steps'[i].game_data, "winner_determined", FALSE)) =>
                 /\ IsWinnerSet({p \in Players :
                                    users'[p].overall_score = users[p].overall_score + 1},
                                Totals(steps'[i].game_data))
                 /\ \A p \in Players :
                       users'[p].overall_score \in
                          {users[p].overall_score, users[p].overall_score + 1}]_vars

\* C20: an end_round on a round that has a location adds to the cumulative
\* distance of every participant the distance of their recorded guess, and
\* the penalty distance when they have no recorded guess.
GeoPenaltyExact ==
    [][(/\ HandleGeoEndRound(ADMIN)
        /\ Get(game_state.game_data, "current_location", NoLocation) # NoLocation) =>
           LET location == game_state.game_data["current_location"]
               guesses  == Guesses(game_state)
           IN  \A p \in Players :
                  OdGet(Totals(game_state'.game_data), p, 0) =
                     OdGet(Totals(game_state.game_data), p, 0) +
                        (IF OdHas(guesses, p)
                         THEN calculate_distance(location.latitude, location.longitude,
                                                 OdGet(guesses, p, NULL).latitude,
                                                 OdGet(guesses, p, NULL).longitude)
                         ELSE penalty_distance)]_vars

\* a round ended with a guess of one participant and none of the other
RoundEndedWithOneGuess ==
    /\ Get(game_state.game_data, "status", NULL) = "round_ended"
    /\ Len(Guesses(game_state)) = 1
    /\ \E p \in Players : OdGet(Totals(game_state.game_data), p, 0) = penalty_distance
    /\ \E p \in Players :
          /\ OdHas(Totals(game_state.game_data), p)
          /\ OdGet(Totals(game_state.game_data), p, 0) < penalty_distance

\* the submission of a participant in the State Store
SubmissionOf(gs, p) == OdGet(Get(gs.game_data, "player_submissions", <<>>), p, <<>>)

\* the place of a name in the true ranking, 0 for a name it does not have
TruePlace(name) ==
    IF \E k \in DOMAIN TrueItems : TrueItems[k].item_name = name
    THEN CHOOSE k \in DOMAIN TrueItems : TrueItems[k].item_name = name
    ELSE 0

\* the pairs of an order, both of known names, that stand in the opposite order
Inversions(o) ==
    Cardinality({ij \in (DOMAIN o) \X (DOMAIN o) :
        /\ ij[1] < ij[2]
        /\ TruePlace(o[ij[1]]) > 0 /\ TruePlace(o[ij[2]]) > 0
        /\ TruePlace(o[ij[1]]) > TruePlace(o[ij[2]])})

\* C21: the score stored with a permutation of the four items is
\* 1 - inversions / 6 to four places: 1.0 for the true order, 0.0 for its
\* reverse, 0.8333 (one inversion) for the true order with its first two
\* items swapped.
KendallTauOfPermutation ==
    \A p \in Players :
       LET mine == SubmissionOf(game_state, p)
       IN  (mine # <<>> /\ mine.order \in Permutations4) =>
              /\ mine.score = Round4(6 - Inversions(mine.order), 6)
              /\ mine.order = <<"a", "b", "c", "d">> => mine.score = 10000
              /\ mine.order = <<"d", "c", "b", "a">> => mine.score = 0
              /\ mine.order = <<"b", "a", "c", "d">> =>
                    Inversions(mine.order) = 1 /\ mine.score = 8333

\* the participant's order with one adjacent pair swapped is stored
SwappedPairStored ==
    /\ SubmissionOf(game_state, "p1") # <<>>
    /\ SubmissionOf(game_state, "p1").order = <<"b", "a", "c", "d">>
    /\ SubmissionOf(game_state, "p1").score = 8333

\* C22: an order with a name the question does not have is stored and
\* acknowledged like any other; its score counts the inversions among the
\* known names only, over all the pairs of the order, lies in 0..1 and is 1.0
\* only when the known names stand in their true relative order.
UnknownItemsAreIgnored ==
    [][\A p \in Players :
          LET mine == SubmissionOf(game_state', p)
              n == Len(mine.order)
              pairs == (n * (n - 1)) \div 2
          IN  (/\ mine # <<>>
               /\ mine # SubmissionOf(game_state, p)
               /\ \E i \in DOMAIN mine.order : TruePlace(mine.order[i]) = 0) =>
                  /\ \E i \in DOMAIN emitted' :
                        /\ emitted'[i].event = "order_submitted"
                        /\ emitted'[i].to = "sender"
                        /\ emitted'[i].data.success
                  /\ mine.score \in 0..10000
                  /\ pairs > 0 => mine.score = Round4(pairs - Inversions(mine.order), pairs)
                  /\ mine.score = 10000 => Inversions(mine.order) = 0]_vars

\* an order with an unknown name between two known names in the wrong order
UnknownItemStored ==
    /\ SubmissionOf(game_state, "p1") # <<>>
    /\ SubmissionOf(game_state, "p1").order = <<"b", "x", "a">>
    /\ SubmissionOf(game_state, "p1").score = 6667

\* C23: the ordering_results broadcast of an end_ordering_round holds one
\* result for every recorded submission, with its score, in descending order
\* of score; is_winner marks the results at the greatest score, and their
\* participants, and no others, are given one overall point.
OrderingResultsRanked ==
    [][\A i \in DOMAIN emitted' :
          emitted'[i].event = "ordering_results" =>
             LET results == emitted'[i].data.results
                 recorded == Get(game_state.game_data, "player_submissions", <<>>)
                 best(score) == \A k \in DOMAIN recorded : recorded[k][2].score <= score
             IN  /\ emitted'[i].to = "broadcast"
                 /\ Len(results) = Len(recorded)
                 /\ \A k \in DOMAIN recorded : \E r \in DOMAIN results :
                       /\ results[r].username = recorded[k][1]
                       /\ results[r].score = recorded[k][2].score
                       /\ results[r].order = recorded[k][2].order
                 /\ \A a, b \in DOMAIN results : a < b => results[a].score >= results[b].score
                 /\ \A r \in DOMAIN results : results[r].is_winner <=> best(results[r].score)
                 /\ \A p \in Players :
                       users'[p].overall_score = users[p].overall_score +
                          (IF /\ OdHas(recorded, p)
                              /\ best(OdGet(recorded, p, <<>>).score)
                           THEN 1 ELSE 0)]_vars

\* results broadcast with the later, better submission first
LaterSubmissionRankedFirst ==
    \E i \in DOMAIN emitted :
       /\ emitted[i].event = "ordering_results"
       /\ Len(emitted[i].data.results) = 2
       /\ emitted[i].data.results[1].score > emitted[i].data.results[2].score
       /\ emitted[i].data.results[1].username =
             Get(game_state.game_data, "player_submissions", <<>>)[2][1]

\* C24: while no round has been closed or revealed, no event of a
\* submit_answer tells whether the answer is correct: none has an is_correct
\* field and none announces a correct guess.
NoCorrectnessBeforeReveal ==
    [][\A p \in Players, r \in 1..MaxRound, a \in InputTexts, m \in MovieChoices :
          \A q \in AnswerQuestions :
             HandleSubmitAnswer(p, q.id, r, a, m) =>
                \A i \in DOMAIN emitted' :
                   /\ "is_correct" \notin DOMAIN emitted'[i].data
                   /\ emitted'[i].event # "player_guessed_correct"]_vars

\* C25: a geo guess that is turned down because the round is not open
\* changes neither the State Store nor a score, is answered by a message to
\* the participant who sent it, and by nothing sent to anyone else.
RejectionIsAcknowledged ==
    [][\A p \in Players, lon \in GuessLongitudes :
          (/\ HandleGeoSubmitGuess(p, lon)
           /\ Get(game_state.game_data, "status", NULL) # "active") =>
              /\ game_state' = game_state
              /\ users' = users
              /\ emitted' # <<>>
              /\ \A i \in DOMAIN emitted' : emitted'[i].to \in {"sender", p}]_vars

\* C27: a call of setup_utility_handlers, for an id of the registry or any
\* other, leaves the manager's active_game and the State Store's is_active,
\* active_game and game_data as they were.
SetupLeavesSlotAndStore ==
    [][(Ran(steps', "register_socket_events") \/ Ran(steps', "game_not_found"))
       => /\ active_game' = active_game
          /\ game_state' = game_state]_vars

\* handlers were bound for an id of the registry while a game was running
SetupDuringGame ==
    /\ Ran(steps, "register_socket_events")
    /\ active_game # NULL
    /\ game_state.is_active
    /\ game_state.game_data # EmptyDict

\* the participant game_data holds as the one who buzzed
BuzzedPlayer(gs) == Get(gs.game_data, "current_buzzed_player", NULL)

\* C28: a buzz is accepted, and announced, only while the buzzer is active and
\* nobody has buzzed; once a participant has buzzed, current_buzzed_player
\* changes only by being cleared.
OnlyFirstBuzzAccepted ==
    [][/\ (\E i \in DOMAIN emitted' : emitted'[i].event = "buzzer_buzzed")
           => /\ Get(game_state.game_data, "buzzer_active", FALSE)
              /\ BuzzedPlayer(game_state) = NULL
       /\ (BuzzedPlayer(game_state) # NULL /\ BuzzedPlayer(game_state') # BuzzedPlayer(game_state))
           => BuzzedPlayer(game_state') = NULL]_vars

\* the overall points awarded since the game was started
RECURSIVE AwardedSince(_, _)
AwardedSince(ep, i) ==
    IF i > Len(UserOrder) THEN 0 ELSE ep[UserOrder[i]] + AwardedSince(ep, i + 1)

\* C30: a sorting game awards one overall point in all, when it is marked
\* game_ended, to a participant with the highest score; afterwards no sort
\* changes a score or awards a point (a start of the game sets the scores to 0).
SortingAwardsOnce ==
    [][(game_state.active_game = "tt" /\ game_state'.active_game = "tt")
       => /\ AwardedSince(epoch', 1) <= 1
          /\ (~Get(game_state.game_data, "game_ended", FALSE)
              /\ Get(game_state'.game_data, "game_ended", FALSE))
             => /\ AwardedSince(epoch', 1) = 1
                /\ \E p \in Players :
                      /\ epoch'[p] = 1
                      /\ \A q \in Players :
                            OdGet(game_state'.game_data.player_states, q, SortingNoState).score
                              <= OdGet(game_state'.game_data.player_states, p, SortingNoState).score
          /\ (/\ Get(game_state.game_data, "game_ended", FALSE)
              /\ \A i \in DOMAIN emitted' : emitted'[i].event # "sorting_game_countdown")
             => /\ users' = users
                /\ \A p \in Players :
                      OdGet(Get(game_state'.game_data, "player_states", <<>>), p, SortingNoState).score
                        = OdGet(Get(game_state.game_data, "player_states", <<>>), p, SortingNoState).score]_vars

\* a participant's Match Me state in game_data
MatchMeState(gs, p) ==
    OdGet(Get(gs.game_data, "player_states", <<>>), p, MatchMeNoState)

\* the handler took the branch of process_answer in which no next question
\* could be built, for participant p
EndedEarly(out, p) ==
    /\ \E i \in DOMAIN out : out[i].event = "match_me_completed" /\ out[i].to = p
    /\ \A i \in DOMAIN out : out[i].event # "match_me_answer_result"

\* C26: when no next question can be built for a participant, the participant
\* is completed, the other participants' states stay as they are, and once
\* every participant is completed the manager's active instance and the State
\* Store's active_game are cleared.
EarlyEndClearsRegistry ==
    [][\A p \in Players :
          EndedEarly(emitted', p) /\ Ran(steps', "begin")
          => /\ MatchMeState(game_state', p).completed
             /\ \A q \in Players \ {p} :
                   MatchMeState(game_state', q) = MatchMeState(game_state, q)
             /\ (\A q \in Players : MatchMeState(game_state', q).completed)
                => /\ active_game' = NULL
                   /\ game_state'.active_game = NULL]_vars

\* C29: the 12th answer of a participant completes every participant and
\* ends the game, and a game that a 12th answer ended awards one overall
\* point in all.
TwelfthAnswerAwardsOnce ==
    [][game_state'.active_game = "match_me"
       => /\ \A p \in Players :
                (/\ MatchMeState(game_state, p).current_question < questions_per_player
                 /\ MatchMeState(game_state', p).current_question >= questions_per_player)
                => /\ \A q \in Players : MatchMeState(game_state', q).completed
                   /\ Get(game_state'.game_data, "status", NULL) = "ended"
          /\ (\E p \in Players :
                 MatchMeState(game_state', p).current_question >= questions_per_player)
             => AwardedSince(epoch', 1) <= 1]_vars

\* a handler that changed nothing a client can see and told nobody but its sender
Quiet ==
    /\ UNCHANGED <<Board, game_state, users, answers, last_broadcast>>
    /\ \A i \in DOMAIN emitted' : emitted'[i].to = "sender"

\* C31: while a question is displayed, 0 <= current_item_index <=
\* total_items - 1; next_item at the last item and previous_item at the first
\* item change nothing and broadcast nothing.
ItemIndexInRange ==
    [][/\ current_question_data' # NoQuestion =>
             /\ 0 <= current_item_index'
             /\ current_item_index' <= total_items' - 1
       /\ (/\ HandleNextItem(ADMIN)
           /\ current_question_data # NoQuestion
           /\ current_item_index = total_items - 1) => Quiet
       /\ (/\ HandlePreviousItem(ADMIN)
           /\ current_question_data # NoQuestion
           /\ current_item_index = 0) => Quiet]_vars

\* next_item was sent at the last item of a question with several items
NextItemAtLastItem ==
    /\ current_question_data # NoQuestion
    /\ total_items > 1
    /\ current_item_index = total_items - 1
    /\ steps = <<[step |-> "begin", game_data |-> game_state.game_data,
                  active_game |-> game_state.active_game, manager |-> active_game]>>
    /\ emitted = <<>>
    /\ last_broadcast.currentItemIndex = current_item_index
\* C32: for the ordering question of the round, however often
\* end_ordering_round is received, no participant has received more than one
\* platform point in total.
OrderingPointOnce == \A p \in Players : epoch[p] <= 1
\* C33: in one cooperative puzzle game nobody holds a point before a team
\* has completed the puzzle, and afterwards the members of one team hold
\* exactly one point each and everybody else none, whatever piece updates
\* followed the completion.
PuzzlePointOncePerWinner ==
    game_state.active_game = "coop_puzzle" =>
       LET teams == Get(game_state.game_data, "teams", <<>>)
           members(i) == {teams[i][2][k] : k \in DOMAIN teams[i][2]}
       IN  IF Get(game_state.game_data, "game_over", FALSE)
           THEN \E i \in DOMAIN teams :
                   \A p \in Players : epoch[p] = IF p \in members(i) THEN 1 ELSE 0
           ELSE \A p \in Players : epoch[p] = 0
\* C34: while a question of a buzzer type is on the board, a buzz that
\* arrives while a participant is recorded as having buzzed does not change
\* who is recorded, and buzzer_correct and buzzer_wrong change the overall
\* score of the recorded participant only.
FirstBuzzIsCredited ==
    [][/\ \A p \in Players :
             (/\ handle_buzzer_buzz(p)
              /\ current_question_data # NoQuestion
              /\ current_question_data.question_type \in BuzzerQuestionTypes
              /\ current_buzzed_player # NULL) =>
                current_buzzed_player' = current_buzzed_player
       /\ (handle_buzzer_correct(ADMIN) \/ handle_buzzer_wrong(ADMIN)) =>
             \A p \in Players :
                users'[p].overall_score # users[p].overall_score =>
                   p = current_buzzed_player]_vars
\* C39: no participant's overall score is below 0, whatever awards and
\* deductions of 1 or 2 points the operator has made.
OverallScoreNeverNegative == \A p \in Players : users[p].overall_score >= 0

\* buzzer_wrong took 2 points for a growing silhouette and left the
\* participant at 0
DeductedDownToZero ==
    \E i \in DOMAIN emitted :
       /\ emitted[i].event = "buzzer_answer_wrong"
       /\ "points_deducted" \in DOMAIN emitted[i].data
       /\ emitted[i].data.points_deducted = 2
       /\ emitted[i].data.new_score = 0
       /\ users[emitted[i].data.username].overall_score = 0
\* C35: once the manager no longer holds the flappy game, because end_game
\* ended it or another game replaced it, flappy_birds_start and
\* flappy_birds_end change neither game_data nor any participant's score.
EndedModuleIsSilent ==
    [][(/\ active_game # "FlappyBirdsGame"
        /\ HandleFlappyStart(ADMIN) \/ HandleFlappyEnd(ADMIN)) =>
          /\ game_state'.game_data = game_state.game_data
          /\ users' = users]_vars
\* C36: an operator control event received from a participant's session
\* changes nothing: not the State Store, the manager or a module instance,
\* not the displayed question, not an answer, a score or a phase.
OnlyOperatorControls ==
    [][\A p \in Players :
          OperatorEvents(p) =>
             UNCHANGED <<game_state, users, active_game, instances, Board, answers,
                         current_buzzed_player, silhouette_phase>>]_vars
\* C37: in a started sorting game, a sort of an item that is not the item
\* presented to the participant (one they have sorted already, or one still
\* to come) changes neither their score nor their items_sorted count.
SortsOnlyThePresentedItem ==
    [][\A p \in Players, item_id \in SortIds, category_id \in {1, 2} :
          LET before == Get(game_state.game_data, "player_states", <<>>)
              after == Get(game_state'.game_data, "player_states", <<>>)
              mine == OdGet(before, p, SortingNoState)
          IN  (/\ HandleSortingSubmitSort(p, item_id, category_id)
               /\ OdHas(before, p)
               /\ \/ mine.current_item_index >= Len(mine.item_order)
                  \/ mine.item_order[mine.current_item_index + 1] # item_id) =>
                 /\ OdGet(after, p, SortingNoState).score = mine.score
                 /\ OdGet(after, p, SortingNoState).items_sorted = mine.items_sorted]_vars
\* C38: the results end_ordering_round broadcasts for the question on
\* display list orders of that question's items only: no order submitted
\* for an earlier ordering question is among them, and none makes a winner.
ResultsOfThisQuestionOnly ==
    [][\A q \in OrderingQuestions :
          (HandleEndOrderingRound(ADMIN, q.id) /\ current_question_data = q) =>
             \A i \in DOMAIN emitted' :
                emitted'[i].event = "ordering_results" =>
                   \A r \in DOMAIN emitted'[i].data.results :
                      emitted'[i].data.results[r].order \in OrdersOf(q.id)]_vars
====
